---- MODULE Spec2Model ----
(***************************************************************************)
(* dao-rewards-distributor (contracts/distribution/dao-rewards-distributor *)
(* /src/contract.rs): the reward-accrual engine, modelled as a state       *)
(* machine over the contract's storage items, the block height and the     *)
(* voting-power oracle.                                                    *)
(*                                                                         *)
(* Uint256 accumulators are kept exact.  TLC's integers are 32 bits wide,  *)
(* so a Uint256 value v is held as the tuple                               *)
(*     << v \div 10^39, d_2, ..., d_7 >>                                   *)
(* where d_2..d_7 are the digits of v % 10^39, most significant first, d_2 *)
(* in radix 10^4 and d_3..d_7 in radix 10^7.  All arithmetic below is      *)
(* exact integer arithmetic on that form; the 2^256 and 2^128 limits are   *)
(* far outside the bounded inputs.                                         *)
(***************************************************************************)
EXTENDS Integers, Sequences, FiniteSets, TLC

\* ------------------------------------------------------------- bounds
MaxHeight == 2
MaxMsgs == 3

\* --------------------------------------------------- wide arithmetic
\* Radix of limb i (i >= 2): 10^4 * (10^7)^5 = 10^39.
FracLimbs == 6
Limbs == FracLimbs + 1
Radix(i) == IF i = 2 THEN 10000 ELSE 10000000

\* Uint256::zero()
Zero256 == [i \in 1..Limbs |-> 0]

\* n.checked_mul(scale_factor()) for a small integer n: n * 10^39.
MulScale(n) == [i \in 1..Limbs |-> IF i = 1 THEN n ELSE 0]

\* scale_factor() = Uint256::from(10u8).pow(39)
scale_factor == MulScale(1)

\* a >= b
Geq256(a, b) ==
    \/ a = b
    \/ \E i \in 1..Limbs : a[i] > b[i] /\ \A j \in 1..(i - 1) : a[j] = b[j]

\* Limbs i..1 of a + b + carry c into limb i.
RECURSIVE AddFrom(_, _, _, _)
AddFrom(a, b, i, c) ==
    LET x == a[i] + b[i] + c IN
    IF i = 1 THEN <<x>>
    ELSE AddFrom(a, b, i - 1, x \div Radix(i)) \o <<x % Radix(i)>>

\* a + b
Add256(a, b) == AddFrom(a, b, Limbs, 0)

\* Limbs i..1 of a - b - borrow w from limb i.
RECURSIVE SubFrom(_, _, _, _)
SubFrom(a, b, i, w) ==
    LET x == a[i] - b[i] - w IN
    IF i = 1 THEN <<x>>
    ELSE SubFrom(a, b, i - 1, IF x < 0 THEN 1 ELSE 0)
         \o <<IF x < 0 THEN x + Radix(i) ELSE x>>

\* a - b, defined for a >= b
Sub256(a, b) == SubFrom(a, b, Limbs, 0)

\* Limbs i..1 of a * p + carry c into limb i.
RECURSIVE MulFrom(_, _, _, _)
MulFrom(a, p, i, c) ==
    LET x == a[i] * p + c IN
    IF i = 1 THEN <<x>>
    ELSE MulFrom(a, p, i - 1, x \div Radix(i)) \o <<x % Radix(i)>>

\* a * p for a small integer p
MulSmall256(a, p) == MulFrom(a, p, Limbs, 0)

\* Limbs i..Limbs of floor(a / t), r the remainder left by limb i - 1.
RECURSIVE DivFrom(_, _, _, _)
DivFrom(a, t, i, r) ==
    LET x == IF i = 1 THEN a[1] ELSE r * Radix(i) + a[i] IN
    IF i = Limbs THEN <<x \div t>>
    ELSE <<x \div t>> \o DivFrom(a, t, i + 1, x % t)

\* floor(a / t) for a small integer t > 0 (long division)
DivSmall256(a, t) == DivFrom(a, t, 1, 0)

\* floor(a / scale_factor()), as a small integer
DivScale(a) == a[1]

\* ------------------------------------------------------ the environment
\* Addresses.  OWNER, the stakers and the contracts the tests deploy.
OWNER == "owner"
Stakers == {"addr0001", "addr0002"}
Users == Stakers \cup {OWNER}
VP_CONTRACT == "vp"
STAKING == "staking"
CW20 == "cw20"
STRANGER == "stranger"
HookSenders == {VP_CONTRACT, STAKING, STRANGER}
DENOM == "utest"
OTHER_DENOM == "uother"

\* Inputs of InstantiateMsg, Fund and UpdateRewardDuration.
Durations == {0, 1, 2}
FundAmounts == {1, 3}

\* The voting power a staker can hold: addr0001 stakes one unit or none,
\* addr0002 two units or none, so the total power ranges over 0..3.
StakeUnit == [a \in Stakers |-> IF a = "addr0001" THEN 1 ELSE 2]
Powers == {pw \in [Stakers -> 0..2] : \A a \in Stakers : pw[a] \in {0, StakeUnit[a]}}

\* Option<T>: None is the empty set, Some(x) the singleton.
None == {}
Some(x) == {x}
unwrap_or_default(o, d) == IF o = None THEN d ELSE CHOOSE x \in o : TRUE

\* cw_storage_plus::Map: a function on the keys that were saved.
EmptyMap == [k \in {} |-> 0]
MapGet(m, k) == IF k \in DOMAIN m THEN Some(m[k]) ELSE None
MapSave(m, k, v) == [x \in (DOMAIN m) \cup {k} |-> IF x = k THEN v ELSE m[x]]

min(a, b) == IF a <= b THEN a ELSE b

RECURSIVE SumOver(_, _)
SumOver(f, S) ==
    IF S = {} THEN 0
    ELSE LET x == CHOOSE y \in S : TRUE IN f[x] + SumOver(f, S \ {x})

\* Coins attached to a message (info.funds).
Coin(d, a) == [denom |-> d, amount |-> a]

\* The Fund messages explored: the owner with each amount, the owner with each
\* malformed payment, and a sender who is not the owner.
FundMsgs ==
    {[sender |-> OWNER, funds |-> <<Coin(DENOM, a)>>] : a \in FundAmounts \cup {0}}
    \cup {[sender |-> OWNER, funds |-> <<>>],
          [sender |-> OWNER, funds |-> <<Coin(OTHER_DENOM, 3)>>],
          [sender |-> OWNER, funds |-> <<Coin(DENOM, 3), Coin(OTHER_DENOM, 3)>>],
          [sender |-> "addr0001", funds |-> <<Coin(DENOM, 3)>>]}

\* The Receive messages explored: the reward token forwarding each amount sent
\* by the owner, or an amount sent by someone else, and another token.
ReceiveMsgs ==
    {[info_sender |-> CW20, sender |-> OWNER, amount |-> a] : a \in FundAmounts}
    \cup {[info_sender |-> CW20, sender |-> "addr0001", amount |-> 3],
          [info_sender |-> STRANGER, sender |-> OWNER, amount |-> 3]}

VARIABLES
    height,                 \* env.block.height
    power,                  \* the voting-power contract: power of each staker
    instantiated,           \* the contract exists
    CONFIG,                 \* state::CONFIG
    OWNERSHIP,              \* cw_ownable's stored owner
    REWARD_CONFIG,          \* state::REWARD_CONFIG
    LAST_UPDATE_BLOCK,      \* state::LAST_UPDATE_BLOCK (Item<u64>, may be unset)
    REWARD_PER_TOKEN,       \* state::REWARD_PER_TOKEN (Item<Uint256>, may be unset)
    USER_REWARD_PER_TOKEN,  \* state::USER_REWARD_PER_TOKEN (Map<Addr, Uint256>)
    PENDING_REWARDS,        \* state::PENDING_REWARDS (Map<Addr, Uint128>)
    funded,                 \* history: sum of the amounts of the accepted Funds
    claimed,                \* history: sum of the transfers emitted by Claim
    nmsgs,                  \* history: number of messages executed successfully
    weights,                \* cw-vesting MassDistribute.weights (Map<String, Decimal>)
    messages                \* the Vec<CosmosMsg> the last MassDistribute call returned

vars == <<height, power, instantiated, CONFIG, OWNERSHIP, REWARD_CONFIG,
          LAST_UPDATE_BLOCK, REWARD_PER_TOKEN, USER_REWARD_PER_TOKEN,
          PENDING_REWARDS, funded, claimed, nmsgs, weights, messages>>

\* The storage and output of the mass distribution, which the rewards
\* contract does not touch.
distributionVars == <<weights, messages>>

\* The reward storage the handlers read and write, as one value.
Store ==
    [REWARD_CONFIG |-> REWARD_CONFIG,
     LAST_UPDATE_BLOCK |-> LAST_UPDATE_BLOCK,
     REWARD_PER_TOKEN |-> REWARD_PER_TOKEN,
     USER_REWARD_PER_TOKEN |-> USER_REWARD_PER_TOKEN,
     PENDING_REWARDS |-> PENDING_REWARDS]

Commit(s) ==
    /\ REWARD_CONFIG' = s.REWARD_CONFIG
    /\ LAST_UPDATE_BLOCK' = s.LAST_UPDATE_BLOCK
    /\ REWARD_PER_TOKEN' = s.REWARD_PER_TOKEN
    /\ USER_REWARD_PER_TOKEN' = s.USER_REWARD_PER_TOKEN
    /\ PENDING_REWARDS' = s.PENDING_REWARDS

storeVars == <<REWARD_CONFIG, LAST_UPDATE_BLOCK, REWARD_PER_TOKEN,
               USER_REWARD_PER_TOKEN, PENDING_REWARDS>>

Ok(v) == [err |-> "", val |-> v]
Err(e) == [err |-> e, val |-> 0]

\* A message that fails with err: the chain discards every write it made.
Reject(err) == UNCHANGED vars

\* ------------------------------------------------- voting-power oracle
\* TotalPowerAtHeight { height: None }
get_total_voting_power(pw) == SumOver(pw, DOMAIN pw)

\* VotingPowerAtHeight { address, height: None }
get_voting_power(pw, addr) == IF addr \in DOMAIN pw THEN pw[addr] ELSE 0

\* ------------------------------------------------------ reward accrual
\* Mutant: the current height, not capped at period_finish.
get_last_time_reward_applicable_uncapped(s, h) == h

get_last_time_reward_applicable(s, h) == min(h, s.REWARD_CONFIG.period_finish)

\* Mutant: the division by the total power comes before the scaling.
get_reward_per_token_unscaled(s, h, pw) ==
    LET total_staked == get_total_voting_power(pw)
        last_time_reward_applicable == get_last_time_reward_applicable(s, h)
        last_update_block == unwrap_or_default(s.LAST_UPDATE_BLOCK, 0)
        prev_reward_per_token == unwrap_or_default(s.REWARD_PER_TOKEN, Zero256)
    IN  IF total_staked = 0 THEN Ok(prev_reward_per_token)
        ELSE IF last_time_reward_applicable < last_update_block
             THEN Err("Overflow")
        ELSE Ok(Add256(prev_reward_per_token,
                       MulScale((s.REWARD_CONFIG.reward_rate
                                 * (last_time_reward_applicable - last_update_block))
                                \div total_staked)))
\* Mutant: the stored value is replaced by the addition, not increased by it.
get_reward_per_token_replaced(s, h, pw) ==
    LET total_staked == get_total_voting_power(pw)
        last_time_reward_applicable == get_last_time_reward_applicable(s, h)
        last_update_block == unwrap_or_default(s.LAST_UPDATE_BLOCK, 0)
        prev_reward_per_token == unwrap_or_default(s.REWARD_PER_TOKEN, Zero256)
    IN  IF total_staked = 0 THEN Ok(prev_reward_per_token)
        ELSE IF last_time_reward_applicable < last_update_block
             THEN Err("Overflow")
        ELSE LET numerator ==
                     MulScale(s.REWARD_CONFIG.reward_rate
                              * (last_time_reward_applicable - last_update_block))
             IN  Ok(DivSmall256(numerator, total_staked))

get_reward_per_token(s, h, pw) ==
    LET total_staked == get_total_voting_power(pw)
        last_time_reward_applicable == get_last_time_reward_applicable(s, h)
        last_update_block == unwrap_or_default(s.LAST_UPDATE_BLOCK, 0)
        prev_reward_per_token == unwrap_or_default(s.REWARD_PER_TOKEN, Zero256)
    IN  IF total_staked = 0 THEN Ok(prev_reward_per_token)
        ELSE IF last_time_reward_applicable < last_update_block
             THEN Err("Overflow")    \* u64 subtraction underflows
        ELSE LET numerator ==
                     MulScale(s.REWARD_CONFIG.reward_rate
                              * (last_time_reward_applicable - last_update_block))
             IN  Ok(Add256(prev_reward_per_token,
                           DivSmall256(numerator, total_staked)))

\* Mutant: the address's voting power is left out of the product.
get_rewards_earned_unweighted(s, addr, reward_per_token, pw) ==
    LET user_reward_per_token ==
            unwrap_or_default(MapGet(s.USER_REWARD_PER_TOKEN, addr), Zero256)
    IN  IF ~Geq256(reward_per_token, user_reward_per_token)
        THEN Err("Overflow")
        ELSE Ok(DivScale(Sub256(reward_per_token, user_reward_per_token)))
\* Mutant: the scaled product is rounded up, not down.
get_rewards_earned_rounded_up(s, addr, reward_per_token, pw) ==
    LET staked_balance == get_voting_power(pw, addr)
        user_reward_per_token ==
            unwrap_or_default(MapGet(s.USER_REWARD_PER_TOKEN, addr), Zero256)
    IN  IF ~Geq256(reward_per_token, user_reward_per_token)
        THEN Err("Overflow")
        ELSE LET product == MulSmall256(
                                Sub256(reward_per_token, user_reward_per_token),
                                staked_balance)
             IN  Ok(IF \A i \in 2..Limbs : product[i] = 0
                    THEN DivScale(product)
                    ELSE DivScale(product) + 1)

get_rewards_earned(s, addr, reward_per_token, pw) ==
    LET staked_balance == get_voting_power(pw, addr)
        user_reward_per_token ==
            unwrap_or_default(MapGet(s.USER_REWARD_PER_TOKEN, addr), Zero256)
    IN  IF ~Geq256(reward_per_token, user_reward_per_token)
        THEN Err("Overflow")         \* checked_sub fails
        ELSE Ok(DivScale(MulSmall256(
                    Sub256(reward_per_token, user_reward_per_token),
                    staked_balance)))

\* Mutant: USER_REWARD_PER_TOKEN is not brought up to date.
update_rewards_no_checkpoint(s, h, pw, addr) ==
    LET rpt == get_reward_per_token(s, h, pw) IN
    IF rpt.err # "" THEN Err(rpt.err)
    ELSE
    LET s1 == [s EXCEPT !.REWARD_PER_TOKEN = Some(rpt.val)]
        earned == get_rewards_earned(s1, addr, rpt.val, pw)
    IN
    IF earned.err # "" THEN Err(earned.err)
    ELSE
    Ok([s1 EXCEPT
          !.PENDING_REWARDS =
              MapSave(@, addr, unwrap_or_default(MapGet(@, addr), 0) + earned.val),
          !.LAST_UPDATE_BLOCK = Some(get_last_time_reward_applicable(s1, h))])
\* Mutant: LAST_UPDATE_BLOCK stays where it is while nobody holds power.
update_rewards_idle_kept(s, h, pw, addr) ==
    LET rpt == get_reward_per_token(s, h, pw) IN
    IF rpt.err # "" THEN Err(rpt.err)
    ELSE
    LET s1 == [s EXCEPT !.REWARD_PER_TOKEN = Some(rpt.val)]
        earned == get_rewards_earned(s1, addr, rpt.val, pw)
    IN
    IF earned.err # "" THEN Err(earned.err)
    ELSE
    Ok([s1 EXCEPT
          !.PENDING_REWARDS =
              MapSave(@, addr, unwrap_or_default(MapGet(@, addr), 0) + earned.val),
          !.USER_REWARD_PER_TOKEN = MapSave(@, addr, rpt.val),
          !.LAST_UPDATE_BLOCK =
              IF get_total_voting_power(pw) = 0 /\ @ # None THEN @
              ELSE Some(get_last_time_reward_applicable(s1, h))])
\* Mutant: the new reward-per-token is used but not stored.
update_rewards_accumulator_unsaved(s, h, pw, addr) ==
    LET rpt == get_reward_per_token(s, h, pw) IN
    IF rpt.err # "" THEN Err(rpt.err)
    ELSE
    LET earned == get_rewards_earned(s, addr, rpt.val, pw) IN
    IF earned.err # "" THEN Err(earned.err)
    ELSE
    Ok([s EXCEPT
          !.PENDING_REWARDS =
              MapSave(@, addr, unwrap_or_default(MapGet(@, addr), 0) + earned.val),
          !.USER_REWARD_PER_TOKEN = MapSave(@, addr, rpt.val),
          !.LAST_UPDATE_BLOCK = Some(get_last_time_reward_applicable(s, h))])

update_rewards(s, h, pw, addr) ==
    LET rpt == get_reward_per_token(s, h, pw) IN
    IF rpt.err # "" THEN Err(rpt.err)
    ELSE
    LET s1 == [s EXCEPT !.REWARD_PER_TOKEN = Some(rpt.val)]
        earned == get_rewards_earned(s1, addr, rpt.val, pw)
    IN
    IF earned.err # "" THEN Err(earned.err)
    ELSE
    Ok([s1 EXCEPT
          !.PENDING_REWARDS =
              MapSave(@, addr, unwrap_or_default(MapGet(@, addr), 0) + earned.val),
          !.USER_REWARD_PER_TOKEN = MapSave(@, addr, rpt.val),
          !.LAST_UPDATE_BLOCK = Some(get_last_time_reward_applicable(s1, h))])

\* Mutant: the stored REWARD_PER_TOKEN is used, not the one as of height h.
query_pending_rewards_stored(s, h, pw, addr) ==
    LET earned == get_rewards_earned(s, addr,
                      unwrap_or_default(s.REWARD_PER_TOKEN, Zero256), pw) IN
    IF earned.err # "" THEN Err(earned.err)
    ELSE Ok(earned.val + unwrap_or_default(MapGet(s.PENDING_REWARDS, addr), 0))

\* GetPendingRewards { address }: the pending_rewards field of the response.
query_pending_rewards(s, h, pw, addr) ==
    LET rpt == get_reward_per_token(s, h, pw) IN
    IF rpt.err # "" THEN Err(rpt.err)
    ELSE
    LET earned == get_rewards_earned(s, addr, rpt.val, pw) IN
    IF earned.err # "" THEN Err(earned.err)
    ELSE Ok(earned.val + unwrap_or_default(MapGet(s.PENDING_REWARDS, addr), 0))


\* ----------------------------------------------------------- handlers
Native(d) == [kind |-> "native", id |-> d]
Cw20(a) == [kind |-> "cw20", id |-> a]

\* Mutant: any sender passes while the contract has an owner.
assert_owner_any(ownership, sender) ==
    IF ownership.owner = None THEN "NoOwner" ELSE ""

\* cw_ownable::assert_owner
assert_owner(ownership, sender) ==
    IF ownership.owner = None THEN "NoOwner"
    ELSE IF ownership.owner # Some(sender) THEN "NotOwner"
    ELSE ""
\* Mutant: coins after the first are ignored.
must_pay_first_coin(funds, denom) ==
    IF Len(funds) = 0 THEN Err("NoFunds")
    ELSE IF funds[1].amount = 0 THEN Err("NoFunds")
    ELSE IF funds[1].denom # denom THEN Err("MissingDenom")
    ELSE Ok(funds[1].amount)

\* cw_utils::must_pay(&info, &denom)
must_pay(funds, denom) ==
    IF Len(funds) = 0 THEN Err("NoFunds")
    ELSE IF Len(funds) > 1 THEN Err("MultipleDenoms")
    ELSE IF funds[1].amount = 0 THEN Err("NoFunds")
    ELSE IF funds[1].denom # denom THEN Err("MissingDenom")
    ELSE Ok(funds[1].amount)

\* Mutant: the voting-power contract stays authorized beside the hook_caller.
check_hook_caller_either(config, sender) ==
    IF Some(sender) = config.hook_caller \/ sender = config.vp_contract
    THEN "" ELSE "InvalidHookSender"

check_hook_caller(config, sender) ==
    IF config.hook_caller # None
    THEN IF Some(sender) # config.hook_caller THEN "InvalidHookSender" ELSE ""
    ELSE IF sender # config.vp_contract THEN "InvalidHookSender" ELSE ""

get_transfer_msg(recipient, amount, denom) ==
    IF denom.kind = "native"
    THEN [type |-> "bank_send", to_address |-> recipient,
          denom |-> denom.id, amount |-> amount]
    ELSE [type |-> "wasm_execute", contract_addr |-> denom.id,
          msg |-> [transfer |-> [recipient |-> recipient, amount |-> amount]],
          funds |-> <<>>]

\* Mutant: the sender is not checked against the owner.
execute_fund_unguarded(s, h, pw, ownership, sender, amount) ==
    LET u == update_rewards(s, h, pw, sender) IN
    IF u.err # "" THEN Err(u.err)
    ELSE
    LET reward_config == u.val.REWARD_CONFIG IN
    IF reward_config.period_finish > h THEN Err("RewardPeriodNotFinished")
    ELSE IF reward_config.reward_duration = 0 THEN Err("DivideByZero")
    ELSE
    LET new_reward_config ==
            [period_finish |-> h + reward_config.reward_duration,
             reward_rate |-> amount \div reward_config.reward_duration,
             reward_duration |-> reward_config.reward_duration]
    IN
    IF new_reward_config.reward_rate = 0 THEN Err("RewardRateLessThenOnePerBlock")
    ELSE Ok([u.val EXCEPT !.REWARD_CONFIG = new_reward_config,
                          !.LAST_UPDATE_BLOCK = Some(h)])
\* Mutant: a funding at the very block the period finishes is refused too.
execute_fund_at_finish_refused(s, h, pw, ownership, sender, amount) ==
    IF assert_owner(ownership, sender) # "" THEN Err(assert_owner(ownership, sender))
    ELSE
    LET u == update_rewards(s, h, pw, sender) IN
    IF u.err # "" THEN Err(u.err)
    ELSE
    LET reward_config == u.val.REWARD_CONFIG IN
    IF reward_config.period_finish >= h THEN Err("RewardPeriodNotFinished")
    ELSE IF reward_config.reward_duration = 0 THEN Err("DivideByZero")
    ELSE
    LET new_reward_config ==
            [period_finish |-> h + reward_config.reward_duration,
             reward_rate |-> amount \div reward_config.reward_duration,
             reward_duration |-> reward_config.reward_duration]
    IN
    IF new_reward_config.reward_rate = 0 THEN Err("RewardRateLessThenOnePerBlock")
    ELSE Ok([u.val EXCEPT !.REWARD_CONFIG = new_reward_config,
                          !.LAST_UPDATE_BLOCK = Some(h)])
\* Mutant: the rate is rounded up instead of down.
execute_fund_rate_rounded_up(s, h, pw, ownership, sender, amount) ==
    IF assert_owner(ownership, sender) # "" THEN Err(assert_owner(ownership, sender))
    ELSE
    LET u == update_rewards(s, h, pw, sender) IN
    IF u.err # "" THEN Err(u.err)
    ELSE
    LET reward_config == u.val.REWARD_CONFIG IN
    IF reward_config.period_finish > h THEN Err("RewardPeriodNotFinished")
    ELSE IF reward_config.reward_duration = 0 THEN Err("DivideByZero")
    ELSE
    LET new_reward_config ==
            [period_finish |-> h + reward_config.reward_duration,
             reward_rate |-> (amount + reward_config.reward_duration - 1)
                                 \div reward_config.reward_duration,
             reward_duration |-> reward_config.reward_duration]
    IN
    IF new_reward_config.reward_rate = 0 THEN Err("RewardRateLessThenOnePerBlock")
    ELSE Ok([u.val EXCEPT !.REWARD_CONFIG = new_reward_config,
                          !.LAST_UPDATE_BLOCK = Some(h)])
\* Mutant: a rate of zero is stored like any other.
execute_fund_zero_rate_accepted(s, h, pw, ownership, sender, amount) ==
    IF assert_owner(ownership, sender) # "" THEN Err(assert_owner(ownership, sender))
    ELSE
    LET u == update_rewards(s, h, pw, sender) IN
    IF u.err # "" THEN Err(u.err)
    ELSE
    LET reward_config == u.val.REWARD_CONFIG IN
    IF reward_config.period_finish > h THEN Err("RewardPeriodNotFinished")
    ELSE IF reward_config.reward_duration = 0 THEN Err("DivideByZero")
    ELSE
    LET new_reward_config ==
            [period_finish |-> h + reward_config.reward_duration,
             reward_rate |-> amount \div reward_config.reward_duration,
             reward_duration |-> reward_config.reward_duration]
    IN
    Ok([u.val EXCEPT !.REWARD_CONFIG = new_reward_config,
                     !.LAST_UPDATE_BLOCK = Some(h)])
\* Mutant: the period is counted from block 0, not from the funding block.
execute_fund_period_from_zero(s, h, pw, ownership, sender, amount) ==
    IF assert_owner(ownership, sender) # "" THEN Err(assert_owner(ownership, sender))
    ELSE
    LET u == update_rewards(s, h, pw, sender) IN
    IF u.err # "" THEN Err(u.err)
    ELSE
    LET reward_config == u.val.REWARD_CONFIG IN
    IF reward_config.period_finish > h THEN Err("RewardPeriodNotFinished")
    ELSE IF reward_config.reward_duration = 0 THEN Err("DivideByZero")
    ELSE
    LET new_reward_config ==
            [period_finish |-> reward_config.reward_duration,
             reward_rate |-> amount \div reward_config.reward_duration,
             reward_duration |-> reward_config.reward_duration]
    IN
    IF new_reward_config.reward_rate = 0 THEN Err("RewardRateLessThenOnePerBlock")
    ELSE Ok([u.val EXCEPT !.REWARD_CONFIG = new_reward_config,
                          !.LAST_UPDATE_BLOCK = Some(h)])
\* Mutant: the new period is started without reconciling the old one first.
execute_fund_no_reconcile(s, h, pw, ownership, sender, amount) ==
    IF assert_owner(ownership, sender) # "" THEN Err(assert_owner(ownership, sender))
    ELSE
    LET reward_config == s.REWARD_CONFIG IN
    IF reward_config.period_finish > h THEN Err("RewardPeriodNotFinished")
    ELSE IF reward_config.reward_duration = 0 THEN Err("DivideByZero")
    ELSE
    LET new_reward_config ==
            [period_finish |-> h + reward_config.reward_duration,
             reward_rate |-> amount \div reward_config.reward_duration,
             reward_duration |-> reward_config.reward_duration]
    IN
    IF new_reward_config.reward_rate = 0 THEN Err("RewardRateLessThenOnePerBlock")
    ELSE Ok([s EXCEPT !.REWARD_CONFIG = new_reward_config,
                      !.LAST_UPDATE_BLOCK = Some(h)])
\* Mutant: the new period counts from the last reconciliation, not from h.
execute_fund_from_last_update(s, h, pw, ownership, sender, amount) ==
    IF assert_owner(ownership, sender) # "" THEN Err(assert_owner(ownership, sender))
    ELSE
    LET u == update_rewards(s, h, pw, sender) IN
    IF u.err # "" THEN Err(u.err)
    ELSE
    LET reward_config == u.val.REWARD_CONFIG IN
    IF reward_config.period_finish > h THEN Err("RewardPeriodNotFinished")
    ELSE IF reward_config.reward_duration = 0 THEN Err("DivideByZero")
    ELSE
    LET new_reward_config ==
            [period_finish |-> h + reward_config.reward_duration,
             reward_rate |-> amount \div reward_config.reward_duration,
             reward_duration |-> reward_config.reward_duration]
    IN
    IF new_reward_config.reward_rate = 0 THEN Err("RewardRateLessThenOnePerBlock")
    ELSE Ok([u.val EXCEPT !.REWARD_CONFIG = new_reward_config,
                          !.LAST_UPDATE_BLOCK = s.LAST_UPDATE_BLOCK])

execute_fund(s, h, pw, ownership, sender, amount) ==
    IF assert_owner(ownership, sender) # "" THEN Err(assert_owner(ownership, sender))
    ELSE
    LET u == update_rewards(s, h, pw, sender) IN
    IF u.err # "" THEN Err(u.err)
    ELSE
    LET reward_config == u.val.REWARD_CONFIG IN
    IF reward_config.period_finish > h THEN Err("RewardPeriodNotFinished")
    ELSE IF reward_config.reward_duration = 0 THEN Err("DivideByZero")
    ELSE
    LET new_reward_config ==
            [period_finish |-> h + reward_config.reward_duration,
             reward_rate |-> amount \div reward_config.reward_duration,
             reward_duration |-> reward_config.reward_duration]
    IN
    IF new_reward_config.reward_rate = 0 THEN Err("RewardRateLessThenOnePerBlock")
    ELSE Ok([u.val EXCEPT !.REWARD_CONFIG = new_reward_config,
                          !.LAST_UPDATE_BLOCK = Some(h)])

execute_fund_native(s, h, pw, config, ownership, sender, funds) ==
    IF config.reward_token.kind = "native"
    THEN LET amount == must_pay(funds, config.reward_token.id) IN
         IF amount.err # "" THEN Err("InvalidFunds")
         ELSE execute_fund(s, h, pw, ownership, sender, amount.val)
    ELSE Err("InvalidFunds")
\* Mutant: a notification is taken from any contract.
execute_receive_any_token(s, h, pw, config, ownership, info_sender, wrapper_sender, amount) ==
    execute_fund(s, h, pw, ownership, wrapper_sender, amount)

\* info_sender is the contract that delivers the Cw20ReceiveMsg, wrapper_sender
\* the account that sent the tokens.
execute_receive(s, h, pw, config, ownership, info_sender, wrapper_sender, amount) ==
    IF config.reward_token # Cw20(info_sender) THEN Err("InvalidCw20")
    ELSE execute_fund(s, h, pw, ownership, wrapper_sender, amount)
\* Mutant: the notification is acknowledged without a reconciliation.
execute_stake_no_reconcile(s, h, pw, addr) == Ok(s)

execute_stake(s, h, pw, addr) == update_rewards(s, h, pw, addr)
\* Mutant: the reconciliation runs against the power after the change.
execute_unstake_after_change(s, h, pw, addr) ==
    update_rewards(s, h, [a \in DOMAIN pw |-> IF a = addr THEN 0 ELSE pw[a]], addr)

execute_unstake(s, h, pw, addr) == update_rewards(s, h, pw, addr)

execute_stake_changed(s, h, pw, config, sender, kind, addr) ==
    IF check_hook_caller(config, sender) # "" THEN Err(check_hook_caller(config, sender))
    ELSE IF kind = "Stake" THEN execute_stake(s, h, pw, addr)
    ELSE execute_unstake(s, h, pw, addr)

execute_nft_stake_changed(s, h, pw, config, sender, kind, addr) ==
    IF check_hook_caller(config, sender) # "" THEN Err(check_hook_caller(config, sender))
    ELSE IF kind = "Stake" THEN execute_stake(s, h, pw, addr)
    ELSE execute_unstake(s, h, pw, addr)

\* `let _ = msg.diffs.iter().map(|member| ... update_rewards(..))`: the map
\* adapter is lazy and is dropped without being consumed, so the closure runs
\* for no member and the storage is left as it is.
execute_membership_changed(s, h, pw, config, sender, diffs) ==
    IF check_hook_caller(config, sender) # "" THEN Err(check_hook_caller(config, sender))
    ELSE Ok(s)

\* Mutant: a pending amount of zero is paid out like any other.
execute_claim_unchecked(s, h, pw, config, sender) ==
    LET u == update_rewards(s, h, pw, sender) IN
    IF u.err # "" THEN Err(u.err)
    ELSE
    LET rewards == MapGet(u.val.PENDING_REWARDS, sender) IN
    IF rewards = None THEN Err("NoRewardsClaimable")
    ELSE Ok([s |-> [u.val EXCEPT !.PENDING_REWARDS = MapSave(@, sender, 0)],
             amount |-> unwrap_or_default(rewards, 0),
             msg |-> get_transfer_msg(sender, unwrap_or_default(rewards, 0),
                                      config.reward_token)])

\* Mutant: the pending amount is left in place after the transfer.
execute_claim_no_reset(s, h, pw, config, sender) ==
    LET u == update_rewards(s, h, pw, sender) IN
    IF u.err # "" THEN Err(u.err)
    ELSE
    LET rewards == MapGet(u.val.PENDING_REWARDS, sender) IN
    IF rewards = None THEN Err("NoRewardsClaimable")
    ELSE IF unwrap_or_default(rewards, 0) = 0 THEN Err("NoRewardsClaimable")
    ELSE Ok([s |-> u.val,
             amount |-> unwrap_or_default(rewards, 0),
             msg |-> get_transfer_msg(sender, unwrap_or_default(rewards, 0),
                                      config.reward_token)])

\* Ok value: the new storage, the amount claimed and the transfer message.
execute_claim(s, h, pw, config, sender) ==
    LET u == update_rewards(s, h, pw, sender) IN
    IF u.err # "" THEN Err(u.err)
    ELSE
    LET rewards == MapGet(u.val.PENDING_REWARDS, sender) IN
    IF rewards = None THEN Err("NoRewardsClaimable")
    ELSE IF unwrap_or_default(rewards, 0) = 0 THEN Err("NoRewardsClaimable")
    ELSE Ok([s |-> [u.val EXCEPT !.PENDING_REWARDS = MapSave(@, sender, 0)],
             amount |-> unwrap_or_default(rewards, 0),
             msg |-> get_transfer_msg(sender, unwrap_or_default(rewards, 0),
                                      config.reward_token)])
\* Mutant: the duration may be changed while a period is running.
execute_update_reward_duration_mid_period(s, h, ownership, sender, new_duration) ==
    IF assert_owner(ownership, sender) # "" THEN Err(assert_owner(ownership, sender))
    ELSE IF new_duration = 0 THEN Err("ZeroRewardDuration")
    ELSE Ok([s EXCEPT !.REWARD_CONFIG.reward_duration = new_duration])
\* Mutant: changing the duration also restarts the period from this block.
execute_update_reward_duration_restarting(s, h, ownership, sender, new_duration) ==
    IF assert_owner(ownership, sender) # "" THEN Err(assert_owner(ownership, sender))
    ELSE IF s.REWARD_CONFIG.period_finish > h THEN Err("RewardPeriodNotFinished")
    ELSE IF new_duration = 0 THEN Err("ZeroRewardDuration")
    ELSE Ok([s EXCEPT !.REWARD_CONFIG.reward_duration = new_duration,
                      !.REWARD_CONFIG.period_finish = h + new_duration])
\* Mutant: the rate is rescaled to the new duration.
execute_update_reward_duration_rescaling(s, h, ownership, sender, new_duration) ==
    IF assert_owner(ownership, sender) # "" THEN Err(assert_owner(ownership, sender))
    ELSE IF s.REWARD_CONFIG.period_finish > h THEN Err("RewardPeriodNotFinished")
    ELSE IF new_duration = 0 THEN Err("ZeroRewardDuration")
    ELSE Ok([s EXCEPT !.REWARD_CONFIG.reward_duration = new_duration,
                      !.REWARD_CONFIG.reward_rate =
                          (@ * s.REWARD_CONFIG.reward_duration) \div new_duration])

execute_update_reward_duration(s, h, ownership, sender, new_duration) ==
    IF assert_owner(ownership, sender) # "" THEN Err(assert_owner(ownership, sender))
    ELSE IF s.REWARD_CONFIG.period_finish > h THEN Err("RewardPeriodNotFinished")
    ELSE IF new_duration = 0 THEN Err("ZeroRewardDuration")
    ELSE Ok([s EXCEPT !.REWARD_CONFIG.reward_duration = new_duration])

\* cw_ownable::Action; nominations are made without an expiry, as in the tests.
TransferOwnership(new_owner) == [type |-> "TransferOwnership", new_owner |-> new_owner]
AcceptOwnership == [type |-> "AcceptOwnership"]
RenounceOwnership == [type |-> "RenounceOwnership"]

\* Mutant: a nomination takes effect at once.
update_ownership_immediate(ownership, sender, action) ==
    IF action.type = "TransferOwnership"
    THEN IF assert_owner(ownership, sender) # "" THEN Err(assert_owner(ownership, sender))
         ELSE Ok([owner |-> Some(action.new_owner), pending_owner |-> None])
    ELSE IF action.type = "AcceptOwnership"
    THEN IF ownership.pending_owner = None THEN Err("TransferNotFound")
         ELSE IF ownership.pending_owner # Some(sender) THEN Err("NotPendingOwner")
         ELSE Ok([owner |-> Some(sender), pending_owner |-> None])
    ELSE IF assert_owner(ownership, sender) # "" THEN Err(assert_owner(ownership, sender))
         ELSE Ok([owner |-> None, pending_owner |-> None])

\* execute_update_owner: cw_ownable::update_ownership(deps, block, sender, action)
update_ownership(ownership, sender, action) ==
    IF action.type = "TransferOwnership"
    THEN IF assert_owner(ownership, sender) # "" THEN Err(assert_owner(ownership, sender))
         ELSE Ok([ownership EXCEPT !.pending_owner = Some(action.new_owner)])
    ELSE IF action.type = "AcceptOwnership"
    THEN IF ownership.pending_owner = None THEN Err("TransferNotFound")
         ELSE IF ownership.pending_owner # Some(sender) THEN Err("NotPendingOwner")
         ELSE Ok([owner |-> Some(sender), pending_owner |-> None])
    ELSE IF assert_owner(ownership, sender) # "" THEN Err(assert_owner(ownership, sender))
         ELSE Ok([owner |-> None, pending_owner |-> None])

\* ------------------------------------------------------------ actions
\* The deployments explored: hooks sent by the voting-power contract itself
\* with a native reward, and a designated hook_caller with a cw20 reward.
InstantiateMsgs ==
    {[hook_caller |-> None, reward_token |-> Native(DENOM)],
     [hook_caller |-> Some(STAKING), reward_token |-> Cw20(CW20)]}

Init ==
    /\ height = 0
    /\ power \in Powers
    /\ instantiated = FALSE
    /\ CONFIG = [vp_contract |-> VP_CONTRACT, hook_caller |-> None,
                 reward_token |-> Native(DENOM)]
    /\ OWNERSHIP = [owner |-> None, pending_owner |-> None]
    /\ REWARD_CONFIG = [period_finish |-> 0, reward_rate |-> 0, reward_duration |-> 0]
    /\ LAST_UPDATE_BLOCK = None
    /\ REWARD_PER_TOKEN = None
    /\ USER_REWARD_PER_TOKEN = EmptyMap
    /\ PENDING_REWARDS = EmptyMap
    /\ funded = 0
    /\ claimed = 0
    /\ nmsgs = 0
    /\ weights = EmptyMap
    /\ messages = <<>>
\* Mutant: the duration is stored without being checked.
Instantiate_unchecked(hook_caller, reward_token, reward_duration) ==
    /\ ~instantiated
    /\ instantiated' = TRUE
    /\ CONFIG' = [vp_contract |-> VP_CONTRACT, hook_caller |-> hook_caller,
                  reward_token |-> reward_token]
    /\ OWNERSHIP' = [owner |-> Some(OWNER), pending_owner |-> None]
    /\ REWARD_CONFIG' = [period_finish |-> 0, reward_rate |-> 0,
                         reward_duration |-> reward_duration]
    /\ UNCHANGED <<height, power, LAST_UPDATE_BLOCK, REWARD_PER_TOKEN,
                   USER_REWARD_PER_TOKEN, PENDING_REWARDS, funded, claimed,
                   nmsgs, distributionVars>>

\* instantiate(msg): msg.owner = Some(OWNER), msg.vp_contract = VP_CONTRACT.
Instantiate(hook_caller, reward_token, reward_duration) ==
    /\ ~instantiated
    /\ IF reward_duration = 0
       THEN Reject("ZeroRewardDuration")
       ELSE /\ instantiated' = TRUE
            /\ CONFIG' = [vp_contract |-> VP_CONTRACT, hook_caller |-> hook_caller,
                          reward_token |-> reward_token]
            /\ OWNERSHIP' = [owner |-> Some(OWNER), pending_owner |-> None]
            /\ REWARD_CONFIG' = [period_finish |-> 0, reward_rate |-> 0,
                                 reward_duration |-> reward_duration]
            /\ UNCHANGED <<height, power, LAST_UPDATE_BLOCK, REWARD_PER_TOKEN,
                           USER_REWARD_PER_TOKEN, PENDING_REWARDS, funded, claimed,
                           nmsgs, distributionVars>>

\* The chain produces the next block.
NextBlock ==
    /\ height < MaxHeight
    /\ height' = height + 1
    /\ UNCHANGED <<power, instantiated, CONFIG, OWNERSHIP, storeVars, funded,
                   claimed, nmsgs, distributionVars>>

\* A handler that only touches the reward storage returned Ok: its writes are
\* committed.
Apply(r) ==
    /\ Commit(r.val)
    /\ nmsgs' = nmsgs + 1
    /\ UNCHANGED <<height, instantiated, CONFIG, OWNERSHIP, claimed,
                   distributionVars>>

\* ExecuteMsg::Fund {} with info.funds = funds
Fund(sender, funds) ==
    /\ instantiated
    /\ nmsgs < MaxMsgs
    /\ LET r == execute_fund_native(Store, height, power, CONFIG, OWNERSHIP,
                                    sender, funds)
       IN  IF r.err # "" THEN Reject(r.err)
           ELSE /\ Apply(r)
                /\ funded' = funded + funds[1].amount
                /\ UNCHANGED power

\* ExecuteMsg::Receive(Cw20ReceiveMsg { sender, amount, msg: Fund {} })
Receive(info_sender, wrapper_sender, amount) ==
    /\ instantiated
    /\ nmsgs < MaxMsgs
    /\ LET r == execute_receive(Store, height, power, CONFIG, OWNERSHIP,
                                info_sender, wrapper_sender, amount)
       IN  IF r.err # "" THEN Reject(r.err)
           ELSE /\ Apply(r)
                /\ funded' = funded + amount
                /\ UNCHANGED power

\* The staking contract changes addr's stake by amount and sends
\* ExecuteMsg::StakeChangeHook; the hook runs against the power before the
\* change, and a failing hook fails the stake change with it.
StakeChangeHook(sender, kind, addr, amount) ==
    /\ instantiated
    /\ nmsgs < MaxMsgs
    /\ LET np == IF kind = "Stake" THEN power[addr] + amount ELSE power[addr] - amount
           r == execute_stake_changed(Store, height, power, CONFIG, sender, kind, addr)
       IN  /\ np >= 0
           /\ IF r.err # "" THEN Reject(r.err)
              ELSE /\ Apply(r)
                   /\ power' = [power EXCEPT ![addr] = np]
                   /\ UNCHANGED funded

\* The same for an NFT staking contract: amount is the number of NFTs.
NftStakeChangeHook(sender, kind, addr, amount) ==
    /\ instantiated
    /\ nmsgs < MaxMsgs
    /\ LET np == IF kind = "Stake" THEN power[addr] + amount ELSE power[addr] - amount
           r == execute_nft_stake_changed(Store, height, power, CONFIG, sender, kind, addr)
       IN  /\ np >= 0
           /\ IF r.err # "" THEN Reject(r.err)
              ELSE /\ Apply(r)
                   /\ power' = [power EXCEPT ![addr] = np]
                   /\ UNCHANGED funded

\* A cw4 group changes its members' weights to np and sends
\* ExecuteMsg::MemberChangedHook with one diff per changed member.
MemberChangedHook(sender, np) ==
    /\ instantiated
    /\ nmsgs < MaxMsgs
    /\ np # power
    /\ LET diffs == {a \in DOMAIN power : np[a] # power[a]}
           r == execute_membership_changed(Store, height, power, CONFIG, sender, diffs)
       IN  IF r.err # "" THEN Reject(r.err)
           ELSE /\ Apply(r)
                /\ power' = np
                /\ UNCHANGED funded

\* ExecuteMsg::Claim {}
Claim(sender) ==
    /\ instantiated
    /\ nmsgs < MaxMsgs
    /\ LET r == execute_claim(Store, height, power, CONFIG, sender) IN
       IF r.err # "" THEN Reject(r.err)
       ELSE /\ Commit(r.val.s)
            /\ claimed' = claimed + r.val.amount
            /\ nmsgs' = nmsgs + 1
            /\ UNCHANGED <<height, power, instantiated, CONFIG, OWNERSHIP, funded,
                           distributionVars>>

\* ExecuteMsg::UpdateRewardDuration { new_duration }
UpdateRewardDuration(sender, new_duration) ==
    /\ instantiated
    /\ nmsgs < MaxMsgs
    /\ LET r == execute_update_reward_duration(Store, height, OWNERSHIP, sender,
                                               new_duration)
       IN  IF r.err # "" THEN Reject(r.err)
           ELSE Apply(r) /\ UNCHANGED <<power, funded>>

\* A staker stakes its whole unit or unstakes all of it.
StakeFits(kind, addr) ==
    IF kind = "Stake" THEN power[addr] = 0 ELSE power[addr] = StakeUnit[addr]

Next ==
    \/ \E m \in InstantiateMsgs, d \in Durations :
          Instantiate(m.hook_caller, m.reward_token, d)
    \/ NextBlock
    \/ \E m \in FundMsgs : Fund(m.sender, m.funds)
    \/ \E m \in ReceiveMsgs : Receive(m.info_sender, m.sender, m.amount)
    \/ \E sender \in HookSenders, kind \in {"Stake", "Unstake"}, addr \in Stakers :
          /\ StakeFits(kind, addr)
          /\ StakeChangeHook(sender, kind, addr, StakeUnit[addr])
    \/ \E sender \in HookSenders, kind \in {"Stake", "Unstake"}, addr \in Stakers :
          /\ StakeFits(kind, addr)
          /\ NftStakeChangeHook(sender, kind, addr, StakeUnit[addr])
    \/ \E sender \in HookSenders, np \in Powers :
          MemberChangedHook(sender, np)
    \/ \E sender \in Users : Claim(sender)
    \/ \E sender \in {OWNER, "addr0001"}, d \in Durations :
          UpdateRewardDuration(sender, d)

Spec == Init /\ [][Next]_vars

\* The same contract under the same messages; the properties of funding and
\* of the reward duration are stated over this specification.
SpecFunding == Init /\ [][Next]_vars

\* The same again; the properties of the accrual over idle blocks, of the
\* accumulator and of refunding are stated over this specification.
SpecAccrual == Init /\ [][Next]_vars

\* The same again, for the properties of rounding.
SpecRounding == Init /\ [][Next]_vars

\* The same again, for the properties of the funded window.
SpecWindow == Init /\ [][Next]_vars

\* The same again, for the properties of staking and unstaking.
SpecStaking == Init /\ [][Next]_vars

\* The same again, for the properties of the checkpoints.
SpecCheckpoints == Init /\ [][Next]_vars

\* The same again, for the properties of successive periods.
SpecPeriods == Init /\ [][Next]_vars

\* ---------------------------------------------- the owner's operations
\* The ownership actions explored: a nomination of a staker or of a stranger,
\* an acceptance and a renouncement.
OwnershipActions ==
    {TransferOwnership(a) : a \in {"addr0001", STRANGER}}
    \cup {AcceptOwnership, RenounceOwnership}

\* ExecuteMsg::UpdateOwnership(action)
UpdateOwnership(sender, action) ==
    /\ instantiated
    /\ nmsgs < MaxMsgs
    /\ LET r == update_ownership(OWNERSHIP, sender, action) IN
       IF r.err # "" THEN Reject(r.err)
       ELSE /\ OWNERSHIP' = r.val
            /\ nmsgs' = nmsgs + 1
            /\ UNCHANGED <<height, power, instantiated, CONFIG, storeVars, funded,
                           claimed, distributionVars>>

\* The contract under the messages that depend on who the owner is.
NextOwnership ==
    \/ \E m \in InstantiateMsgs, d \in Durations :
          Instantiate(m.hook_caller, m.reward_token, d)
    \/ NextBlock
    \/ \E sender \in {OWNER, "addr0001"}, a \in FundAmounts :
          Fund(sender, <<Coin(DENOM, a)>>)
    \/ \E sender \in {OWNER, "addr0001"}, d \in Durations :
          UpdateRewardDuration(sender, d)
    \/ \E sender \in {OWNER, "addr0001", STRANGER}, action \in OwnershipActions :
          UpdateOwnership(sender, action)

SpecOwnership == Init /\ [][NextOwnership]_vars

\* ------------------------------------------- the deployment of the tests
\* tests::setup / setup_reward_contract: three stakers with balances 100, 50
\* and 50, hooks sent by the staking contract, a native reward and a reward
\* duration of 100000 blocks.
ADDR3 == "addr0003"
REWARD_DURATION == 100000
InitialBalances ==
    [a \in Stakers \cup {ADDR3} |-> IF a = "addr0001" THEN 100 ELSE 50]

\* The amounts the tests fund: 100000000 (rate 1000), 1000000 (rate 10) and
\* 10000 (rate 0, refused).
TestFundAmounts == {100000000, 1000000, 10000}

InitSmall ==
    /\ height = 0
    /\ power = InitialBalances
    /\ instantiated = FALSE
    /\ CONFIG = [vp_contract |-> VP_CONTRACT, hook_caller |-> None,
                 reward_token |-> Native(DENOM)]
    /\ OWNERSHIP = [owner |-> None, pending_owner |-> None]
    /\ REWARD_CONFIG = [period_finish |-> 0, reward_rate |-> 0, reward_duration |-> 0]
    /\ LAST_UPDATE_BLOCK = None
    /\ REWARD_PER_TOKEN = None
    /\ USER_REWARD_PER_TOKEN = EmptyMap
    /\ PENDING_REWARDS = EmptyMap
    /\ funded = 0
    /\ claimed = 0
    /\ nmsgs = 0
    /\ weights = EmptyMap
    /\ messages = <<>>

\* A staker of the tests stakes its whole balance or unstakes all of it.
BalanceFits(kind, addr) ==
    IF kind = "Stake" THEN power[addr] = 0 ELSE power[addr] = InitialBalances[addr]

NextSmall ==
    \/ Instantiate(Some(STAKING), Native(DENOM), REWARD_DURATION)
    \/ NextBlock
    \/ \E a \in TestFundAmounts : Fund(OWNER, <<Coin(DENOM, a)>>)
    \/ \E kind \in {"Stake", "Unstake"}, addr \in DOMAIN InitialBalances :
          /\ BalanceFits(kind, addr)
          /\ StakeChangeHook(STAKING, kind, addr, InitialBalances[addr])
    \/ \E sender \in DOMAIN InitialBalances : Claim(sender)

SpecSmall == InitSmall /\ [][NextSmall]_vars

\* ------------------------------------- cw-vesting: mass distribution
\* cosmwasm_std::Decimal: 18 fractional digits.  A value is held as three
\* limbs of six digits each below the top one, v = d[1] * 10^12 + d[2] * 10^6
\* + d[3] in units of 10^-18; the integer part is d[1] \div 10^6.
DecimalZero == <<0, 0, 0>>
DecimalPercent(x) == <<x * 10000, 0, 0>>
DecimalOne == DecimalPercent(100)

\* Decimal + Decimal
DecimalAdd(a, b) ==
    LET l3 == a[3] + b[3]
        l2 == a[2] + b[2] + (l3 \div 1000000)
    IN  <<a[1] + b[1] + (l2 \div 1000000), l2 % 1000000, l3 % 1000000>>

\* Uint128 * Decimal: floor(amount * v / 10^18)
MulDecimal(amount, d) ==
    LET l3 == amount * d[3]
        l2 == amount * d[2] + (l3 \div 1000000)
        l1 == amount * d[1] + (l2 \div 1000000)
    IN  l1 \div 1000000

\* The addresses and weights of the tests (50/50, 50/60, 60/30/10), and one
\* third rounded down and up to 18 digits.
Recipients == {"addr1", "addr2", "addr3"}
Third == <<333333, 333333, 333333>>
ThirdUp == <<333333, 333333, 333334>>
Percents == {DecimalPercent(x) : x \in {10, 30, 50, 60}}

\* Vec<(String, Decimal)>: the inputs of set_weights, of one to three pairs.
WeightInputs ==
    UNION {[1..n -> Recipients \X Percents] : n \in 1..3}
    \cup [1..3 -> Recipients \X {Third, ThirdUp}]

\* input.iter().map(|(_, weight)| weight).sum()
RECURSIVE SumWeights(_, _)
SumWeights(input, n) ==
    IF n = 0 THEN DecimalZero
    ELSE DecimalAdd(SumWeights(input, n - 1), input[n][2])

\* for (address, weight) in input { self.weights.save(store, address, weight) }
RECURSIVE SaveWeights(_, _, _)
SaveWeights(store, input, n) ==
    IF n = 0 THEN store
    ELSE MapSave(SaveWeights(store, input, n - 1), input[n][1], input[n][2])

\* MassDistribute::set_weights
set_weights(store, input) ==
    IF SumWeights(input, Len(input)) # DecimalOne
    THEN Err("weights must add up to exactly 1")
    ELSE Ok(SaveWeights(store, input, Len(input)))

\* Mutant: the share is rounded to the nearest token.
get_share_rounded(store, address, amount) ==
    LET w == unwrap_or_default(MapGet(store, address), DecimalZero) IN
    (MulDecimal(2 * amount, w) + 1) \div 2

\* MassDistribute::get_share
get_share(store, address, amount) ==
    MulDecimal(amount, unwrap_or_default(MapGet(store, address), DecimalZero))

\* self.weights.keys(store, None, None, Order::Ascending): the stored
\* addresses in ascending byte order.
AscendingAddresses == <<"addr1", "addr2", "addr3">>
StoredIn(store, address) == address \in DOMAIN store
keys(store) == SelectSeq(AscendingAddresses, LAMBDA a : StoredIn(store, a))

\* MassDistribute::distribute_cw20
distribute_cw20(store, amount, token) ==
    [i \in 1..Len(keys(store)) |->
        [type |-> "wasm_execute", contract_addr |-> token,
         msg |-> [transfer |->
                     [recipient |-> keys(store)[i],
                      amount |-> get_share(store, keys(store)[i], amount)]],
         funds |-> <<>>]]

\* MassDistribute::distribute_native
distribute_native(store, amount, denom) ==
    [i \in 1..Len(keys(store)) |->
        [type |-> "bank_send", to_address |-> keys(store)[i],
         amount |-> <<Coin(denom, get_share(store, keys(store)[i], amount))>>]]

\* MassDistribute::distribute
distribute(store, amount, denom) ==
    IF denom.kind = "cw20" THEN distribute_cw20(store, amount, denom.id)
    ELSE distribute_native(store, amount, denom.id)

\* The amounts and denoms distributed: 100 as in the tests, and 7.
DistributeAmounts == {100, 7}
DistributeDenoms == {Native("uusd"), Cw20("token")}

\* A freshly created MassDistribute over an empty storage.
InitWeights ==
    /\ Init
    /\ power = [a \in Stakers |-> 0]

\* mass_distribute.set_weights(&mut store, &input): Ok(()) carries no
\* messages.
SetWeights(input) ==
    LET r == set_weights(weights, input) IN
    IF r.err # "" THEN Reject(r.err)
    ELSE /\ weights' = r.val
         /\ messages' = <<>>
         /\ UNCHANGED <<height, power, instantiated, CONFIG, OWNERSHIP, storeVars,
                        funded, claimed, nmsgs>>

\* mass_distribute.distribute(&store, amount, denom)
Distribute(amount, denom) ==
    /\ messages' = distribute(weights, amount, denom)
    /\ UNCHANGED <<height, power, instantiated, CONFIG, OWNERSHIP, storeVars,
                   funded, claimed, nmsgs, weights>>

NextWeights ==
    \/ \E input \in WeightInputs : SetWeights(input)
    \/ \E amount \in DistributeAmounts, denom \in DistributeDenoms :
          Distribute(amount, denom)

SpecWeights == InitWeights /\ [][NextWeights]_vars

\* ------------------------------------------------------------- claims
\* Every address that can hold rewards.
Accounts == Users \cup DOMAIN power

\* What GetPendingRewards reports for addr in the current block.
Pending(addr) == query_pending_rewards(Store, height, power, addr).val

RECURSIVE SumPending(_)
SumPending(S) ==
    IF S = {} THEN 0
    ELSE LET x == CHOOSE y \in S : TRUE IN Pending(x) + SumPending(S \ {x})

TotalPending == SumPending(Accounts)

\* C1: the pending rewards of all participants plus everything Claim has paid
\* out never exceed the total amount funded.
C1_Conservation == TotalPending + claimed <= funded

\* The reward-per-token value as of the current block.
CurrentRewardPerToken == get_reward_per_token(Store, height, power).val

\* addr's ledger entry is up to date with the current block.
Reconciled(addr) ==
    MapGet(USER_REWARD_PER_TOKEN, addr) = Some(CurrentRewardPerToken)

AllReconciled == \A a \in DOMAIN power : Reconciled(a)

\* A period was funded and has fully elapsed.
PeriodElapsed == funded > 0 /\ height >= REWARD_CONFIG.period_finish

\* C2 as stated: once the funded period has elapsed and every participant has
\* reconciled, pending plus claimed equals the total amount funded.
C2_FullDistribution ==
    (PeriodElapsed /\ AllReconciled) => TotalPending + claimed = funded

\* C2 amended: once the funded period has elapsed and every participant has
\* reconciled, nothing more accrues: in this block and in every later one
\* GetPendingRewards reports exactly the stored pending amount (what was
\* distributed is final; it need not add up to the amount funded).
C2_DistributionFinal ==
    (PeriodElapsed /\ AllReconciled) =>
        \A a \in DOMAIN power : \A h \in height..(MaxHeight + 1) :
            query_pending_rewards(Store, h, power, a).val
                = unwrap_or_default(MapGet(PENDING_REWARDS, a), 0)

\* C2 witness: the period is over, everybody has reconciled, and part of the
\* funded amount was distributed to nobody.
C2_Witness ==
    /\ PeriodElapsed /\ AllReconciled
    /\ TotalPending + claimed < funded
    /\ TotalPending + claimed > 0

\* What GetPendingRewards would report for addr at height h if no message is
\* executed in between (blocks only advance the height).
PendingAt(addr, h) == query_pending_rewards(Store, h, power, addr).val

\* A funded period is active: the next block still accrues.
PeriodActive == funded > 0 /\ height < REWARD_CONFIG.period_finish

TotalPower == get_total_voting_power(power)

\* The blocks ahead that lie in the active period and within the bound.
BlocksAhead == 1..min(MaxHeight, REWARD_CONFIG.period_finish - height)

\* What k more blocks add to addr's pending rewards.
AddedIn(addr, k) == PendingAt(addr, height + k) - Pending(addr)

\* C3 as stated: while a funded period is active and the total power T is
\* positive, k blocks add exactly k * reward_rate * p / T to the pending
\* rewards of a participant with power p.
C3_ExactShares ==
    (PeriodActive /\ TotalPower > 0) =>
        \A a \in DOMAIN power : \A k \in BlocksAhead :
            AddedIn(a, k) * TotalPower = k * REWARD_CONFIG.reward_rate * power[a]

\* C3 amended: while a funded period is active and the total power T is
\* positive, k blocks add to a participant's pending rewards an amount within
\* one token of k * reward_rate * p / T, and exactly that amount when T
\* divides reward_rate.
C3_ProportionalShares ==
    (PeriodActive /\ TotalPower > 0) =>
        \A a \in DOMAIN power : \A k \in BlocksAhead :
            LET share == k * REWARD_CONFIG.reward_rate * power[a] IN
            /\ AddedIn(a, k) * TotalPower >= share - TotalPower
            /\ AddedIn(a, k) * TotalPower <= share + TotalPower
            /\ REWARD_CONFIG.reward_rate % TotalPower = 0
                  => AddedIn(a, k) * TotalPower = share

\* C3 witness: rate 1000 with powers 100/50/50, two blocks after the funding,
\* one block before the bound: 1000, 500 and 500 are pending and the next
\* block adds 500, 250 and 250.
C3_Witness ==
    /\ PeriodActive
    /\ REWARD_CONFIG.reward_rate = 1000
    /\ power = InitialBalances
    /\ height = REWARD_CONFIG.period_finish - REWARD_CONFIG.reward_duration + 2
    /\ \A a \in DOMAIN power : Pending(a) = 10 * power[a]
    /\ \A a \in DOMAIN power : AddedIn(a, 1) = 5 * power[a]

\* The height of the last accepted Fund.
FundHeight == REWARD_CONFIG.period_finish - REWARD_CONFIG.reward_duration

\* addr has observed every accrual the stored REWARD_PER_TOKEN holds.
UserCurrent(addr) ==
    unwrap_or_default(MapGet(USER_REWARD_PER_TOKEN, addr), Zero256)
        = unwrap_or_default(REWARD_PER_TOKEN, Zero256)

\* floor(p * floor(rate * elapsed * SCALE / T) / SCALE)
ScaledShare(p, rate, elapsed, T) ==
    DivScale(MulSmall256(DivSmall256(MulScale(rate * elapsed), T), p))

\* C4: with total power T > 0, what a participant with power p newly accrues
\* over the blocks elapsed since the last update is
\* floor(p * floor(rate * elapsed * SCALE / T) / SCALE) with SCALE = 10^39;
\* with 1000000 funded over 100000 blocks and powers 100/50/50 the pending
\* rewards one block after the funding are 5, 2 and 2.
C4_SmallRewards ==
    /\ (funded > 0 /\ TotalPower > 0) =>
           \A a \in DOMAIN power : \A h \in height..(height + MaxHeight) :
               UserCurrent(a) =>
                   PendingAt(a, h) - unwrap_or_default(MapGet(PENDING_REWARDS, a), 0)
                       = ScaledShare(power[a], REWARD_CONFIG.reward_rate,
                                     get_last_time_reward_applicable(Store, h)
                                         - unwrap_or_default(LAST_UPDATE_BLOCK, 0),
                                     TotalPower)
    /\ (funded = 1000000 /\ nmsgs = 1 /\ height = FundHeight + 1) =>
           /\ REWARD_CONFIG.reward_rate = 10
           /\ Pending("addr0001") = 5
           /\ Pending("addr0002") = 2
           /\ Pending(ADDR3) = 2

\* C4 witness: one block after the funding of 1000000 over 100000 blocks, no
\* other message executed, 5 is pending for the staker with power 100.
C4_Witness ==
    /\ funded = 1000000 /\ nmsgs = 1 /\ height = FundHeight + 1
    /\ power = InitialBalances
    /\ Pending("addr0001") = 5

\* The amount of the transfer a Response message carries.
TransferAmount(msg) ==
    IF msg.type = "bank_send" THEN msg.amount ELSE msg.msg.transfer.amount

\* C5: in every reachable state, for every address, GetPendingRewards reports
\* the amount a Claim by that address in the same block would transfer, and
\* reports 0 exactly when that Claim would fail with NoRewardsClaimable.
C5_QueryClaimAgreement ==
    instantiated =>
        \A a \in Accounts :
            LET q == query_pending_rewards(Store, height, power, a)
                c == execute_claim(Store, height, power, CONFIG, a)
            IN  /\ q.err = ""
                /\ c.err \in {"", "NoRewardsClaimable"}
                /\ (q.val = 0) <=> (c.err = "NoRewardsClaimable")
                /\ c.err = "" =>
                      /\ c.val.amount = q.val
                      /\ TransferAmount(c.val.msg) = q.val

\* C5 witness: an address holds a stored amount and has accrued more since,
\* so the query and a Claim both have to add the two.
C5_Witness ==
    /\ instantiated
    /\ \E a \in Accounts :
          /\ unwrap_or_default(MapGet(PENDING_REWARDS, a), 0) > 0
          /\ Pending(a) > unwrap_or_default(MapGet(PENDING_REWARDS, a), 0)
          /\ execute_claim(Store, height, power, CONFIG, a).err = ""

\* C6: running update_rewards for an address a second time at the same
\* height, with nothing in between, adds nothing to its pending rewards and
\* leaves REWARD_PER_TOKEN, USER_REWARD_PER_TOKEN and LAST_UPDATE_BLOCK (the
\* whole reward storage) as the first run left them.
C6_IdempotentReconciliation ==
    instantiated =>
        \A a \in Accounts :
            LET once == update_rewards(Store, height, power, a) IN
            once.err = "" =>
                LET twice == update_rewards(once.val, height, power, a) IN
                /\ twice.err = ""
                /\ twice.val = once.val

\* C6 witness: an address has just been reconciled in this block and holds
\* rewards from it; reconciling it again changes nothing.
C6_Witness ==
    /\ height > 0
    /\ LAST_UPDATE_BLOCK = Some(height)
    /\ \E a \in DOMAIN power :
          /\ unwrap_or_default(MapGet(PENDING_REWARDS, a), 0) > 0
          /\ MapGet(USER_REWARD_PER_TOKEN, a) = REWARD_PER_TOKEN
          /\ update_rewards(Store, height, power, a).val = Store

\* addr's last-observed reward-per-token equals the global value as of the
\* current block.
Observed(addr) ==
    unwrap_or_default(MapGet(USER_REWARD_PER_TOKEN, addr), Zero256)
        = CurrentRewardPerToken

\* The addresses whose voting power a step changes; only the three
\* notifications change voting power.
Affected == {a \in DOMAIN power : power'[a] # power[a]}

\* C7: after every accepted stake-changed, NFT-stake-changed and
\* membership-changed notification, each affected address's
\* USER_REWARD_PER_TOKEN equals the REWARD_PER_TOKEN as of the current block.
C7_HooksReconcile == [][\A a \in Affected : Observed(a)']_vars

\* The result of each of the three notifications sent by sender about addr.
HookResults(sender, addr) ==
    {execute_stake_changed(Store, height, power, CONFIG, sender, kind, addr)
         : kind \in {"Stake", "Unstake"}}
    \cup {execute_nft_stake_changed(Store, height, power, CONFIG, sender, kind, addr)
              : kind \in {"Stake", "Unstake"}}
    \cup {execute_membership_changed(Store, height, power, CONFIG, sender, {addr})}

HookSource == unwrap_or_default(CONFIG.hook_caller, CONFIG.vp_contract)

C9_NothingOwed ==
    instantiated =>
        \A a \in Accounts \cup {STRANGER} :
            Pending(a) = 0 =>
                execute_claim(Store, height, power, CONFIG, a)
                    = Err("NoRewardsClaimable")

\* C9 witness: rewards were funded and paid; one address was reconciled to
\* zero, another never interacted, and a Claim by either fails.
C9_Witness ==
    /\ instantiated /\ claimed > 0
    /\ \E a \in Accounts :
          /\ MapGet(PENDING_REWARDS, a) = Some(0)
          /\ execute_claim(Store, height, power, CONFIG, a).err = "NoRewardsClaimable"
    /\ \E b \in Accounts :
          /\ b \notin DOMAIN PENDING_REWARDS
          /\ execute_claim(Store, height, power, CONFIG, b).err = "NoRewardsClaimable"

\* The transfer of amount to recipient in the configured reward denom.
ExpectedTransfer(recipient, amount) ==
    IF CONFIG.reward_token.kind = "native"
    THEN [type |-> "bank_send", to_address |-> recipient,
          denom |-> CONFIG.reward_token.id, amount |-> amount]
    ELSE [type |-> "wasm_execute", contract_addr |-> CONFIG.reward_token.id,
          msg |-> [transfer |-> [recipient |-> recipient, amount |-> amount]],
          funds |-> <<>>]

\* C10: a successful Claim returns one transfer to the claimant, in the
\* configured reward denom, of exactly the claimant's reconciled pending
\* amount, and sets the claimant's pending amount to zero: in the storage it
\* commits GetPendingRewards for the claimant is 0 and a second Claim in the
\* same block fails with NoRewardsClaimable.
C10_ClaimPaysOwed ==
    instantiated =>
        \A a \in Accounts :
            LET c == execute_claim(Store, height, power, CONFIG, a) IN
            c.err = "" =>
                /\ Pending(a) > 0
                /\ c.val.amount = Pending(a)
                /\ c.val.msg = ExpectedTransfer(a, Pending(a))
                /\ MapGet(c.val.s.PENDING_REWARDS, a) = Some(0)
                /\ query_pending_rewards(c.val.s, height, power, a) = Ok(0)
                /\ execute_claim(c.val.s, height, power, CONFIG, a)
                       = Err("NoRewardsClaimable")

\* C10 witness: a Claim has been paid in this block, the claimant's pending
\* amount is zero and a second Claim fails, while another address can still
\* claim.
C10_Witness ==
    /\ claimed > 0
    /\ LAST_UPDATE_BLOCK = Some(height)
    /\ \E a \in Accounts :
          /\ MapGet(PENDING_REWARDS, a) = Some(0)
          /\ MapGet(USER_REWARD_PER_TOKEN, a) = REWARD_PER_TOKEN
          /\ Pending(a) = 0
          /\ execute_claim(Store, height, power, CONFIG, a).err = "NoRewardsClaimable"
    /\ \E b \in Accounts : execute_claim(Store, height, power, CONFIG, b).err = ""

\* ------------------------------------------------- claims about funding
\* Every sender of a message, and the payments and token contracts tried.
Senders == Users \cup {STRANGER}
Payments ==
    {<<Coin(DENOM, a)>> : a \in FundAmounts \cup {0}}
    \cup {<<>>, <<Coin(OTHER_DENOM, 3)>>, <<Coin(DENOM, 3), Coin(OTHER_DENOM, 3)>>}
Tokens == {CW20, STRANGER}

\* The result of ExecuteMsg::Fund {} from sender carrying funds, and of a
\* Receive(Fund) delivered by token for amount sent by sender.
NativeFund(sender, funds) ==
    execute_fund_native(Store, height, power, CONFIG, OWNERSHIP, sender, funds)
Cw20Fund(token, sender, amount) ==
    execute_receive(Store, height, power, CONFIG, OWNERSHIP, token, sender, amount)

\* The payment passes the checks made before execute_fund is entered.
PaymentAccepted(funds) ==
    /\ CONFIG.reward_token.kind = "native"
    /\ must_pay(funds, CONFIG.reward_token.id).err = ""
TokenAccepted(token) == CONFIG.reward_token = Cw20(token)

\* C11: a Fund (native, or cw20 via Receive) whose original sender is not the
\* current owner fails and returns no storage to commit, so reward_rate,
\* period_finish, reward_duration and every pending amount stay as they are;
\* the error is NotOwner whenever the payment reaches execute_fund.
C11_FundOwnerOnly ==
    instantiated =>
        \A sender \in Senders :
            OWNERSHIP.owner # Some(sender) =>
                /\ \A funds \in Payments :
                      /\ NativeFund(sender, funds).err # ""
                      /\ NativeFund(sender, funds).val = 0
                      /\ PaymentAccepted(funds) =>
                            NativeFund(sender, funds) = Err("NotOwner")
                /\ \A token \in Tokens, amount \in FundAmounts :
                      /\ Cw20Fund(token, sender, amount).err # ""
                      /\ Cw20Fund(token, sender, amount).val = 0
                      /\ TokenAccepted(token) =>
                            Cw20Fund(token, sender, amount) = Err("NotOwner")

\* C11 witness: a funded period has ended with rewards pending; the owner's
\* Fund of 3 would be accepted, the same Fund from a staker is refused.
C11_Witness ==
    /\ instantiated /\ PeriodElapsed /\ TotalPending > 0
    /\ \/ /\ NativeFund(OWNER, <<Coin(DENOM, 3)>>).err = ""
          /\ NativeFund("addr0001", <<Coin(DENOM, 3)>>).err = "NotOwner"
       \/ /\ Cw20Fund(CW20, OWNER, 3).err = ""
          /\ Cw20Fund(CW20, "addr0001", 3).err = "NotOwner"

\* No funded period is active at the current height.
NoActivePeriod == REWARD_CONFIG.period_finish <= height

\* C12 as stated: when no funded period is active, any sender whose message
\* carries exactly one coin of the configured reward denom (of an amount that
\* gives a rate of at least one per block) can Fund the distribution.
C12_Permissionless ==
    (instantiated /\ CONFIG.reward_token.kind = "native" /\ NoActivePeriod) =>
        \A sender \in Senders, a \in FundAmounts :
            a >= REWARD_CONFIG.reward_duration =>
                NativeFund(sender, <<Coin(CONFIG.reward_token.id, a)>>).err = ""

\* C12 amended: when no funded period is active, a message carrying exactly
\* one coin of the configured reward denom, of an amount of at least
\* reward_duration, funds the distribution when its sender is the current
\* owner, and fails with NotOwner from any other sender.
C12_OwnerFundsNative ==
    (instantiated /\ CONFIG.reward_token.kind = "native" /\ NoActivePeriod) =>
        \A sender \in Senders, a \in FundAmounts :
            a >= REWARD_CONFIG.reward_duration =>
                LET r == NativeFund(sender, <<Coin(CONFIG.reward_token.id, a)>>) IN
                IF OWNERSHIP.owner = Some(sender)
                THEN r.err = ""
                ELSE r = Err("NotOwner")

\* C12 witness: a native distribution between two periods, with rewards
\* already paid out: the owner can fund it again, a stranger cannot.
C12_Witness ==
    /\ instantiated /\ CONFIG.reward_token.kind = "native"
    /\ PeriodElapsed /\ claimed > 0
    /\ NativeFund(OWNER, <<Coin(DENOM, 3)>>).err = ""
    /\ NativeFund(STRANGER, <<Coin(DENOM, 3)>>).err = "NotOwner"

\* A funding of `amount` by the current owner that passes the payment checks:
\* one coin of the reward denom, or a notification from the reward token.
OwnerFund(amount) ==
    LET owner == unwrap_or_default(OWNERSHIP.owner, STRANGER) IN
    IF CONFIG.reward_token.kind = "native"
    THEN NativeFund(owner, <<Coin(CONFIG.reward_token.id, amount)>>)
    ELSE Cw20Fund(CONFIG.reward_token.id, owner, amount)

\* C13: a funding by the owner, with a well-formed payment, fails with
\* RewardPeriodNotFinished and writes nothing while period_finish > height,
\* whatever the amount; from height = period_finish on it is accepted when the
\* amount gives a rate of at least one per block.
C13_NoMidPeriodFunding ==
    (instantiated /\ OWNERSHIP.owner # None) =>
        \A a \in FundAmounts :
            IF REWARD_CONFIG.period_finish > height
            THEN OwnerFund(a) = Err("RewardPeriodNotFinished")
            ELSE a >= REWARD_CONFIG.reward_duration => OwnerFund(a).err = ""

\* C13 witness: the funded period finishes at this very block, and the owner's
\* next funding is accepted.
C13_Witness ==
    /\ instantiated /\ funded > 0
    /\ REWARD_CONFIG.period_finish = height
    /\ OwnerFund(3).err = ""

\* C14: a successful funding of amount A at height h, with configured duration
\* D, stores reward_rate = floor(A / D), period_finish = h + D and
\* reward_duration = D, and sets LAST_UPDATE_BLOCK to h.
C14_FundEffect ==
    instantiated =>
        \A a \in FundAmounts :
            LET r == OwnerFund(a) IN
            r.err = "" =>
                /\ r.val.REWARD_CONFIG =
                       [period_finish |-> height + REWARD_CONFIG.reward_duration,
                        reward_rate |-> a \div REWARD_CONFIG.reward_duration,
                        reward_duration |-> REWARD_CONFIG.reward_duration]
                /\ r.val.LAST_UPDATE_BLOCK = Some(height)

\* C14 witness: after an earlier period, a funding of 3 over a duration of 2
\* succeeds; its rate is the quotient rounded down.
C14_Witness ==
    /\ instantiated /\ funded > 0 /\ height > 0
    /\ REWARD_CONFIG.reward_duration = 2
    /\ OwnerFund(3).err = ""
    /\ OwnerFund(3).val.REWARD_CONFIG.reward_rate = 1

\* C15: a funding whose amount is below reward_duration never succeeds; when
\* it passes the owner, payment and period checks it fails with
\* RewardRateLessThenOnePerBlock and writes nothing.  Every funding that
\* succeeds stores a rate of at least one, and so does the contract once it
\* has been funded.
C15_RateAtLeastOne ==
    instantiated =>
        /\ \A a \in FundAmounts :
              LET r == OwnerFund(a) IN
              /\ a < REWARD_CONFIG.reward_duration =>
                    /\ r.err # ""
                    /\ NoActivePeriod => r = Err("RewardRateLessThenOnePerBlock")
              /\ r.err = "" => r.val.REWARD_CONFIG.reward_rate >= 1
        /\ funded > 0 => REWARD_CONFIG.reward_rate >= 1

\* C15 witness: a funded contract between two periods, whose owner offers 1
\* over a duration of 2 and is refused.
C15_Witness ==
    /\ instantiated /\ funded > 0
    /\ REWARD_CONFIG.reward_duration = 2
    /\ OwnerFund(1) = Err("RewardRateLessThenOnePerBlock")

\* The payment is not exactly one coin, of a positive amount, of `denom`.
Malformed(funds, denom) ==
    \/ Len(funds) = 0
    \/ Len(funds) > 1
    \/ funds[1].amount = 0
    \/ funds[1].denom # denom

\* C16: a native Fund fails with InvalidFunds, whoever sends it and writing
\* nothing, when it carries no coin, a zero amount, a coin of another denom or
\* more than one coin, and whenever the configured reward token is a cw20.
C16_InvalidFunds ==
    instantiated =>
        \A sender \in Senders, funds \in Payments :
            (\/ CONFIG.reward_token.kind = "cw20"
             \/ Malformed(funds, CONFIG.reward_token.id)) =>
                NativeFund(sender, funds) = Err("InvalidFunds")

\* C16 witness: a native distribution between two periods: the owner's coin of
\* the reward denom is accepted, the same coin with a second one is not.
C16_Witness ==
    /\ instantiated /\ CONFIG.reward_token.kind = "native"
    /\ funded > 0 /\ NoActivePeriod
    /\ NativeFund(OWNER, <<Coin(DENOM, 3)>>).err = ""
    /\ NativeFund(OWNER, <<Coin(DENOM, 3), Coin(OTHER_DENOM, 3)>>) = Err("InvalidFunds")

\* C17: a Receive(Fund) notification from a contract that is not the
\* configured cw20 reward token, or any notification when the reward token is
\* native, fails with InvalidCw20, whoever sent the tokens, and writes nothing;
\* a notification that is accepted comes from the configured cw20 token.
C17_InvalidCw20 ==
    instantiated =>
        \A token \in Tokens, sender \in Senders, a \in FundAmounts :
            LET r == Cw20Fund(token, sender, a) IN
            /\ (CONFIG.reward_token.kind = "native" \/ CONFIG.reward_token.id # token) =>
                  r = Err("InvalidCw20")
            /\ r.err = "" =>
                  (CONFIG.reward_token.kind = "cw20" /\ CONFIG.reward_token.id = token)

\* C17 witness: a cw20 distribution between two periods: the owner's tokens
\* are accepted through the reward token and refused through another contract.
C17_Witness ==
    /\ instantiated /\ CONFIG.reward_token = Cw20(CW20)
    /\ funded > 0 /\ NoActivePeriod
    /\ Cw20Fund(CW20, OWNER, 3).err = ""
    /\ Cw20Fund(STRANGER, OWNER, 3) = Err("InvalidCw20")

\* ------------------------------------- claims about the reward duration
UpdateDuration(sender, new_duration) ==
    execute_update_reward_duration(Store, height, OWNERSHIP, sender, new_duration)

\* C18: UpdateRewardDuration writes nothing and fails with NotOwner when the
\* sender is not the owner, with RewardPeriodNotFinished when the owner sends
\* it while period_finish > height, and with ZeroRewardDuration when the owner
\* sends new_duration = 0 outside a period; it never succeeds in any of the
\* three cases.
C18_UpdateDurationGuards ==
    instantiated =>
        \A sender \in Senders, d \in Durations :
            LET r == UpdateDuration(sender, d) IN
            /\ (\/ OWNERSHIP.owner # Some(sender)
                \/ REWARD_CONFIG.period_finish > height
                \/ d = 0) => r.err # "" /\ r.val = 0
            /\ OWNERSHIP.owner # Some(sender) => r = Err("NotOwner")
            /\ (OWNERSHIP.owner = Some(sender) /\ REWARD_CONFIG.period_finish > height) =>
                  r = Err("RewardPeriodNotFinished")
            /\ (OWNERSHIP.owner = Some(sender) /\ NoActivePeriod /\ d = 0) =>
                  r = Err("ZeroRewardDuration")

\* C18 witness: in the middle of a funded period the owner's change of the
\* duration is refused, and so is a stranger's.
C18_Witness ==
    /\ instantiated /\ PeriodActive
    /\ UpdateDuration(OWNER, 1) = Err("RewardPeriodNotFinished")
    /\ UpdateDuration(STRANGER, 1) = Err("NotOwner")

\* C19: a successful UpdateRewardDuration stores the new duration and leaves
\* reward_rate, period_finish, REWARD_PER_TOKEN, LAST_UPDATE_BLOCK and the
\* per-user records as they were; the pending rewards reported for every
\* participant are the same after it as before.
C19_UpdateDurationFrame ==
    instantiated =>
        /\ \A sender \in Senders, d \in Durations :
              LET r == UpdateDuration(sender, d) IN
              r.err = "" =>
                  /\ r.val.REWARD_CONFIG.reward_duration = d
                  /\ r.val.REWARD_CONFIG.reward_rate = REWARD_CONFIG.reward_rate
                  /\ r.val.REWARD_CONFIG.period_finish = REWARD_CONFIG.period_finish
                  /\ r.val.REWARD_PER_TOKEN = REWARD_PER_TOKEN
                  /\ r.val.LAST_UPDATE_BLOCK = LAST_UPDATE_BLOCK
                  /\ r.val.USER_REWARD_PER_TOKEN = USER_REWARD_PER_TOKEN
                  /\ r.val.PENDING_REWARDS = PENDING_REWARDS
        /\ \A a \in Accounts :
              LET before == Pending(a) IN
              \A sender \in Senders, d \in Durations :
                  LET r == UpdateDuration(sender, d) IN
                  r.err = "" =>
                      query_pending_rewards(r.val, height, power, a).val = before

\* C19 witness: after a funded period in which rewards accrued, the owner
\* changes the duration from 1 to 2.
C19_Witness ==
    /\ instantiated /\ PeriodElapsed /\ TotalPending > 0
    /\ REWARD_CONFIG.reward_duration = 1
    /\ UpdateDuration(OWNER, 2).err = ""

\* C20: an instantiated contract always has reward_duration >= 1 (an
\* instantiation with reward_duration = 0 fails and leaves no contract), and
\* no funding, from any sender with any payment, ends in a division by zero.
C20_DurationNeverZero ==
    instantiated =>
        /\ REWARD_CONFIG.reward_duration >= 1
        /\ \A sender \in Senders :
              /\ \A funds \in Payments :
                    NativeFund(sender, funds).err # "DivideByZero"
              /\ \A token \in Tokens, a \in FundAmounts :
                    Cw20Fund(token, sender, a).err # "DivideByZero"

\* C20 witness: a funded contract between two periods, whose owner tries to
\* set the duration to zero and is refused.
C20_Witness ==
    /\ instantiated /\ funded > 0 /\ NoActivePeriod
    /\ REWARD_CONFIG.reward_duration = 1
    /\ UpdateDuration(OWNER, 0) = Err("ZeroRewardDuration")

\* ------------------------------------------- claims about idle periods
\* The sender whose notifications the contract accepts.
HookCaller == unwrap_or_default(CONFIG.hook_caller, CONFIG.vp_contract)

StoredPending(addr) == unwrap_or_default(MapGet(PENDING_REWARDS, addr), 0)

\* The errors a funding by the owner may end in that are not arithmetic.
FundRefusals == {"", "RewardPeriodNotFinished", "RewardRateLessThenOnePerBlock"}

\* With no voting power anywhere, no operation fails on it, and neither the
\* reward-per-token nor anybody's pending rewards grow with the height.
ZeroStakeQuiet ==
    (instantiated /\ TotalPower = 0) =>
        /\ \A a \in FundAmounts : OwnerFund(a).err \in FundRefusals
        /\ \A a \in Accounts :
              /\ execute_claim(Store, height, power, CONFIG, a).err
                     \in {"", "NoRewardsClaimable"}
              /\ \A r \in HookResults(HookCaller, a) : r.err = ""
              /\ \A h \in height..(MaxHeight + 1) :
                    /\ query_pending_rewards(Store, h, power, a) = Ok(StoredPending(a))
                    /\ get_reward_per_token(Store, h, power)
                           = Ok(unwrap_or_default(REWARD_PER_TOKEN, Zero256))

\* The reward storage after a step.
StoreNext ==
    [REWARD_CONFIG |-> REWARD_CONFIG',
     LAST_UPDATE_BLOCK |-> LAST_UPDATE_BLOCK',
     REWARD_PER_TOKEN |-> REWARD_PER_TOKEN',
     USER_REWARD_PER_TOKEN |-> USER_REWARD_PER_TOKEN',
     PENDING_REWARDS |-> PENDING_REWARDS']

\* A step in which voting power appears where there was none, in an active
\* period: k blocks later each participant holds what it held before the step
\* plus k blocks of its share.
StakeAfterIdle ==
    (/\ instantiated /\ TotalPower = 0 /\ get_total_voting_power(power') > 0
     /\ funded' > 0 /\ height' < REWARD_CONFIG'.period_finish) =>
        \A a \in DOMAIN power :
            \A k \in 1..min(MaxHeight, REWARD_CONFIG'.period_finish - height') :
                query_pending_rewards(StoreNext, height' + k, power', a).val
                    = Pending(a) + ScaledShare(power'[a], REWARD_CONFIG'.reward_rate,
                                               k, get_total_voting_power(power'))

\* C21: Fund, the hooks, Claim and GetPendingRewards never fail because the
\* total voting power is zero; while it is zero REWARD_PER_TOKEN does not grow
\* and nobody's pending amount changes; once participants stake at block b,
\* their pending rewards at block b + k are k blocks of their share.
C21_ZeroStakeSafety == [][ZeroStakeQuiet /\ StakeAfterIdle]_vars

\* The voting powers that may be staked after an idle span.
StakedPowers == {np \in Powers : get_total_voting_power(np) > 0}

\* What the reward-per-token gains when `blocks` blocks of the current rate
\* are shared among a total power T.
PerTokenGain(blocks, T) ==
    DivSmall256(MulScale(REWARD_CONFIG.reward_rate * blocks), T)

\* C22 as stated: a reconciliation made while the total voting power is zero
\* does not advance LAST_UPDATE_BLOCK, and once power np is staked the
\* reward-per-token at the end of the period includes the idle blocks.
C22_IdleRewardsKept ==
    (instantiated /\ PeriodActive /\ TotalPower = 0) =>
        \A a \in Accounts :
            LET u == update_rewards(Store, height, power, a).val IN
            /\ u.LAST_UPDATE_BLOCK = LAST_UPDATE_BLOCK
            /\ \A np \in StakedPowers :
                  get_reward_per_token(u, REWARD_CONFIG.period_finish, np).val
                      = Add256(unwrap_or_default(REWARD_PER_TOKEN, Zero256),
                               PerTokenGain(REWARD_CONFIG.period_finish
                                                - unwrap_or_default(LAST_UPDATE_BLOCK, 0),
                                            get_total_voting_power(np)))

\* C22 amended: a reconciliation made while the total voting power is zero
\* leaves REWARD_PER_TOKEN as it is and advances LAST_UPDATE_BLOCK to
\* min(height, period_finish); the rewards of the idle blocks it passes over
\* are allocated to nobody: whatever power is staked afterwards, the
\* reward-per-token gains only the blocks after the reconciliation.
C22_IdleRewardsDropped ==
    (instantiated /\ TotalPower = 0) =>
        \A a \in Accounts :
            LET r == update_rewards(Store, height, power, a)
                now == min(height, REWARD_CONFIG.period_finish)
            IN  /\ r.err = ""
                /\ r.val.REWARD_PER_TOKEN = Some(unwrap_or_default(REWARD_PER_TOKEN, Zero256))
                /\ r.val.LAST_UPDATE_BLOCK = Some(now)
                /\ \A np \in StakedPowers : \A h \in height..(MaxHeight + 1) :
                      get_reward_per_token(r.val, h, np).val
                          = Add256(unwrap_or_default(REWARD_PER_TOKEN, Zero256),
                                   PerTokenGain(min(h, REWARD_CONFIG.period_finish) - now,
                                                get_total_voting_power(np)))

\* C22 witness: a funded period is running, nobody holds power and a block
\* has passed since the last reconciliation.
C22_Witness ==
    /\ instantiated /\ PeriodActive /\ TotalPower = 0
    /\ LAST_UPDATE_BLOCK # None
    /\ unwrap_or_default(LAST_UPDATE_BLOCK, 0) < height
    /\ update_rewards(Store, height, power, OWNER).val.LAST_UPDATE_BLOCK = Some(height)

\* --------------------------------------- claims about the accumulator
LastUpdate == unwrap_or_default(LAST_UPDATE_BLOCK, 0)

\* C23: in every reachable state LAST_UPDATE_BLOCK <= period_finish and
\* LAST_UPDATE_BLOCK <= min(height, period_finish), so that the subtraction
\* last_time_reward_applicable - last_update_block in get_reward_per_token
\* does not underflow, in this block or a later one, whatever power is staked.
C23_LastUpdateBound ==
    instantiated =>
        /\ LastUpdate <= REWARD_CONFIG.period_finish
        /\ LastUpdate <= min(height, REWARD_CONFIG.period_finish)
        /\ \A h \in height..(MaxHeight + 1) :
              /\ get_last_time_reward_applicable(Store, h) >= LastUpdate
              /\ \A np \in Powers : get_reward_per_token(Store, h, np).err = ""

\* C23 witness: the period is over and was reconciled to its end; the height
\* has moved on and power is staked.
C23_Witness ==
    /\ instantiated /\ PeriodElapsed /\ TotalPower > 0
    /\ LAST_UPDATE_BLOCK = Some(REWARD_CONFIG.period_finish)
    /\ height > REWARD_CONFIG.period_finish

StoredRewardPerToken == unwrap_or_default(REWARD_PER_TOKEN, Zero256)

\* C24: no step of the contract (Fund, Receive, the hooks, Claim,
\* UpdateRewardDuration) lowers the stored REWARD_PER_TOKEN.
C24_AccumulatorMonotone ==
    [][Geq256(unwrap_or_default(REWARD_PER_TOKEN', Zero256), StoredRewardPerToken)]_vars

\* C24 witness: the accumulator has grown and was written in this block by a
\* second or later message.
C24_Witness ==
    /\ instantiated /\ nmsgs >= 2 /\ height > 0
    /\ LAST_UPDATE_BLOCK = Some(height)
    /\ StoredRewardPerToken # Zero256

\* C25: a funding that starts a new period after the previous one has ended
\* leaves every participant's pending rewards as they were: GetPendingRewards
\* reports the same amount right after it as right before, a Claim right
\* after it pays that amount, and in later blocks the amount only grows.
C25_RefundKeepsRewards ==
    (instantiated /\ PeriodElapsed) =>
        \A amount \in FundAmounts :
            LET r == OwnerFund(amount) IN
            r.err = "" =>
                \A a \in Accounts :
                    LET before == Pending(a)
                        c == execute_claim(r.val, height, power, CONFIG, a)
                    IN  /\ query_pending_rewards(r.val, height, power, a) = Ok(before)
                        /\ before > 0 => (c.err = "" /\ c.val.amount = before)
                        /\ \A h \in (height + 1)..(MaxHeight + 1) :
                              query_pending_rewards(r.val, h, power, a).val >= before

\* C25 witness: the period is over, a staker holds rewards of it that are not
\* yet written to its pending amount, and the owner funds the next period.
C25_Witness ==
    /\ instantiated /\ PeriodElapsed
    /\ \E a \in DOMAIN power : Pending(a) > StoredPending(a)
    /\ OwnerFund(3).err = ""

\* ------------------------------------------------ claims about ownership
UpdateOwner(sender, action) == update_ownership(OWNERSHIP, sender, action)

\* What each ownership action returns in the current state.
OwnershipOutcomes ==
    instantiated =>
        \A sender \in Senders :
            /\ \A nominee \in Senders :
                  LET t == UpdateOwner(sender, TransferOwnership(nominee)) IN
                  IF OWNERSHIP.owner = Some(sender)
                  THEN t = Ok([owner |-> OWNERSHIP.owner, pending_owner |-> Some(nominee)])
                  ELSE t = Err(IF OWNERSHIP.owner = None THEN "NoOwner" ELSE "NotOwner")
            /\ LET a == UpdateOwner(sender, AcceptOwnership) IN
               IF OWNERSHIP.pending_owner = Some(sender)
               THEN a = Ok([owner |-> Some(sender), pending_owner |-> None])
               ELSE a.err # "" /\ a.val = 0
            /\ LET r == UpdateOwner(sender, RenounceOwnership) IN
               IF OWNERSHIP.owner = Some(sender)
               THEN r = Ok([owner |-> None, pending_owner |-> None])
               ELSE r.err # "" /\ r.val = 0

\* A step that changes the owner of an instantiated contract is either the
\* pending owner taking over or the owner renouncing; both clear pending_owner.
OwnerChangesInTwoSteps ==
    (instantiated /\ OWNERSHIP'.owner # OWNERSHIP.owner) =>
        /\ OWNERSHIP'.pending_owner = None
        /\ \/ OWNERSHIP'.owner = None
           \/ OWNERSHIP'.owner = OWNERSHIP.pending_owner

\* C26: only the current owner can nominate a new owner (anyone else fails
\* with NotOwner); a nomination leaves the owner unchanged and makes the
\* nominee the pending owner; the owner becomes the nominee, with
\* pending_owner cleared, only when the nominee accepts; after the owner
\* renounces, owner and pending_owner are both none.
C26_TwoStepOwnership == [][OwnershipOutcomes /\ OwnerChangesInTwoSteps]_vars

\* C26 witness: the nominee has accepted and is the owner; the former owner's
\* nominations are refused.
C26_Witness ==
    /\ instantiated
    /\ OWNERSHIP = [owner |-> Some("addr0001"), pending_owner |-> None]
    /\ UpdateOwner(OWNER, TransferOwnership(OWNER)) = Err("NotOwner")

\* ------------------------------------------------ claims about rounding
\* What GetPendingRewards reports for addr at height h2 when nothing happens
\* until then, and when addr2 is reconciled at height h1 in between.
Direct(addr, h2) == query_pending_rewards(Store, h2, power, addr).val
Via(addr, addr2, h1, h2) ==
    query_pending_rewards(update_rewards(Store, h1, power, addr2).val,
                          h2, power, addr).val

\* The pairs of an intermediate block and a later block.
Intervals ==
    {hh \in (height..(MaxHeight + 1)) \X (height..(MaxHeight + 1)) : hh[1] <= hh[2]}

\* C27 as stated: with constant voting powers in an active period, what a
\* participant has accrued at the end of an interval is the same whether or
\* not somebody is reconciled at an intermediate block.
C27_RoundedOnce ==
    (instantiated /\ PeriodActive /\ TotalPower > 0) =>
        \A a \in DOMAIN power, b \in Accounts, hh \in Intervals :
            Via(a, b, hh[1], hh[2]) = Direct(a, hh[2])

\* C27 amended: each reconciliation rounds down what it writes: with constant
\* voting powers in an active period, a reconciliation at an intermediate
\* block never increases what a participant has accrued at the end of the
\* interval, and lowers it by at most two tokens.
C27_RoundedDownEachTime ==
    (instantiated /\ PeriodActive /\ TotalPower > 0) =>
        \A a \in DOMAIN power, b \in Accounts, hh \in Intervals :
            LET via == Via(a, b, hh[1], hh[2])
                direct == Direct(a, hh[2])
            IN  via <= direct /\ direct <= via + 2

\* C27 witness: rate 1 shared by a total power of 3: the staker with power 2
\* gets 1 token for two blocks, and nothing when it is reconciled after the
\* first of them.
C27_Witness ==
    /\ instantiated /\ PeriodActive /\ TotalPower = 3
    /\ REWARD_CONFIG.reward_rate = 1
    /\ Direct("addr0002", height + 2) = StoredPending("addr0002") + 1
    /\ Via("addr0002", "addr0002", height + 1, height + 2) = StoredPending("addr0002")

\* ------------------------------------------------ claims about payments
\* ExecuteMsg::Claim {} sent with info.funds = funds; execute_claim reads
\* info.sender only.
ClaimWithFunds(sender, funds) ==
    execute_claim(Store, height, power, CONFIG, sender)

\* C28: a Claim message that carries attached funds is rejected and changes
\* no state.
C28_ClaimNonpayable ==
    instantiated =>
        \A a \in Accounts, funds \in Payments \ {<<>>} :
            ClaimWithFunds(a, funds).err # ""

\* ---------------------------------------------------------------- C29
\* The stored weights after set_weights(input), None when it is refused.
WeightsAfter(input) ==
    LET r == set_weights(weights, input) IN
    IF r.err # "" THEN None ELSE Some(r.val)

\* C29: set_weights accepts an input list only when its weights sum to
\* exactly 1, and otherwise returns an error and stores nothing; on success
\* every (address, weight) pair of the input is stored and can be read back
\* with that weight.
C29_SetWeights ==
    \A input \in WeightInputs :
        LET after == WeightsAfter(input) IN
        /\ (after # None) <=> (SumWeights(input, Len(input)) = DecimalOne)
        /\ after # None =>
              \A i \in 1..Len(input) :
                  MapGet(unwrap_or_default(after, EmptyMap), input[i][1])
                      = Some(input[i][2])

\* ---------------------------------------------------------------- C30
\* The transfer distribute makes to `address` of its share of `amount`.
TransferTo(address, amount, denom) ==
    LET share == MulDecimal(amount, weights[address]) IN
    IF denom.kind = "native"
    THEN [type |-> "bank_send", to_address |-> address,
          amount |-> <<Coin(denom.id, share)>>]
    ELSE [type |-> "wasm_execute", contract_addr |-> denom.id,
          msg |-> [transfer |-> [recipient |-> address, amount |-> share]],
          funds |-> <<>>]

\* The stored addresses below `address` in byte order.
Below(address) ==
    {b \in DOMAIN weights :
        \E i, j \in 1..Len(AscendingAddresses) :
            i < j /\ AscendingAddresses[i] = b /\ AscendingAddresses[j] = address}

\* The amount a transfer message moves.
Share(msg) ==
    IF msg.type = "bank_send" THEN msg.amount[1].amount
    ELSE msg.msg.transfer.amount

\* The weights of correct_distribution_amounts_native and _cw20.
TestWeights ==
    [a \in Recipients |->
        CASE a = "addr1" -> DecimalPercent(60)
          [] a = "addr2" -> DecimalPercent(30)
          [] a = "addr3" -> DecimalPercent(10)]

\* C30: distribute emits exactly one transfer per stored address, in
\* ascending address order, each of floor(amount * weight(address)) in the
\* given denom: a bank send for a native denom, a cw20 Transfer executed on
\* the token contract for a cw20 denom.  Weights 60%/30%/10% and amount 100
\* give 60, 30 and 10.
C30_Distribute ==
    /\ \A amount \in DistributeAmounts, denom \in DistributeDenoms :
          LET msgs == distribute(weights, amount, denom) IN
          /\ Len(msgs) = Cardinality(DOMAIN weights)
          /\ \A address \in DOMAIN weights :
                msgs[Cardinality(Below(address)) + 1]
                    = TransferTo(address, amount, denom)
    /\ weights = TestWeights =>
          \A denom \in DistributeDenoms :
              [i \in 1..3 |-> Share(distribute(weights, 100, denom)[i])]
                  = <<60, 30, 10>>

\* The weights of the tests are stored and the last call distributed 100 uusd.
C30_Witness ==
    /\ weights = TestWeights
    /\ messages = <<[type |-> "bank_send", to_address |-> "addr1",
                     amount |-> <<Coin("uusd", 60)>>],
                    [type |-> "bank_send", to_address |-> "addr2",
                     amount |-> <<Coin("uusd", 30)>>],
                    [type |-> "bank_send", to_address |-> "addr3",
                     amount |-> <<Coin("uusd", 10)>>]>>

\* ------------------------------------- claims about the funded window
\* The block from which on nothing more accrues in the current period.
AccrualEnd == IF height > REWARD_CONFIG.period_finish THEN height
              ELSE REWARD_CONFIG.period_finish

\* What the reward-per-token gains over `blocks` blocks at `rate`, shared
\* among a total power T.
GainAt(rate, blocks, T) ==
    IF T = 0 THEN Zero256 ELSE DivSmall256(MulScale(rate * blocks), T)

\* Outside a funded window no block accrues: from period_finish on, neither
\* the reward-per-token (whatever power is staked) nor anybody's pending
\* rewards change with the height.
NothingAfterFinish ==
    /\ \A np \in Powers :
          LET atEnd == get_reward_per_token(Store, AccrualEnd, np) IN
          \A h \in (AccrualEnd + 1)..(AccrualEnd + 2) :
              get_reward_per_token(Store, h, np) = atEnd
    /\ \A a \in Accounts :
          LET atEnd == query_pending_rewards(Store, AccrualEnd, power, a) IN
          \A h \in (AccrualEnd + 1)..(AccrualEnd + 2) :
              query_pending_rewards(Store, h, power, a) = atEnd

\* A Fund accepted at the current height with duration D: the accumulator
\* holds the old rate up to the old period_finish and nothing for the idle
\* blocks since; pending rewards are as before the Fund; the new rate accrues
\* over the blocks height + 1 .. height + D and over no other.
FundOpensWindow ==
    \A amount \in FundAmounts :
        LET r == OwnerFund(amount)
            D == REWARD_CONFIG.reward_duration
            atEnd == get_reward_per_token(Store, REWARD_CONFIG.period_finish, power).val
        IN  r.err = "" =>
            /\ r.val.REWARD_CONFIG.period_finish = height + D
            /\ r.val.REWARD_PER_TOKEN = Some(atEnd)
            /\ \A np \in Powers : \A k \in 0..(D + 1) :
                  get_reward_per_token(r.val, height + k, np).val
                      = Add256(atEnd, GainAt(amount \div D, min(k, D),
                                             get_total_voting_power(np)))
            /\ \A a \in Accounts :
                  /\ query_pending_rewards(r.val, height, power, a) = Ok(Pending(a))
                  /\ query_pending_rewards(r.val, height + D + 1, power, a)
                         = query_pending_rewards(r.val, height + D, power, a)

\* C31: rewards accrue only inside a funded window: a Fund at height h with
\* duration D accrues over the blocks in (h, h + D] only; pending rewards do
\* not grow for blocks after period_finish, and the blocks between the end of
\* one period and the next Fund accrue nothing, at the old rate or the new.
C31_FundedWindow == instantiated => (NothingAfterFinish /\ FundOpensWindow)

\* C31 witness: a period was funded, accrued and ended, a block passed idle,
\* and the next period was funded in the current block.
C31_Witness ==
    /\ instantiated /\ TotalPower > 0
    /\ FundHeight = height /\ height >= 2
    /\ LAST_UPDATE_BLOCK = Some(height)
    /\ StoredRewardPerToken # Zero256
    /\ \E a \in Accounts : Pending(a) > 0

\* ------------------------------------ claims about stakers who leave
\* The blocks of the current period that lie in (h1, h2].
BlocksIn(h1, h2) ==
    min(h2, REWARD_CONFIG.period_finish) - min(h1, REWARD_CONFIG.period_finish)

\* addr gives up all its voting power at the current height and the unstake
\* notification is delivered by the accepted sender.
Unstaked(addr) ==
    execute_stake_changed(Store, height, power, CONFIG, HookCaller, "Unstake", addr)
PowerWithout(addr) == [a \in DOMAIN power |-> IF a = addr THEN 0 ELSE power[a]]

\* C32: after a participant's voting power drops to zero and the unstake hook
\* is delivered, the participant's pending rewards stay what they were over
\* the later blocks and can be claimed in any of them, while the remaining
\* stakers share the full reward_rate: the reward-per-token gains
\* rate * SCALE / (T - p) per block of the period, and each remaining staker
\* its share of that (rounded down, or one more).
C32_UnstakeFreezes ==
    instantiated =>
        \A a \in DOMAIN power :
            power[a] > 0 =>
                LET r == Unstaked(a)
                    np == PowerWithout(a)
                    held == Pending(a)
                    rate == REWARD_CONFIG.reward_rate
                    T == get_total_voting_power(np)
                IN  /\ r.err = ""
                    /\ \A k \in 0..2 :
                          LET c == execute_claim(r.val, height + k, np, CONFIG, a)
                              blocks == BlocksIn(height, height + k)
                          IN  /\ query_pending_rewards(r.val, height + k, np, a) = Ok(held)
                              /\ IF held = 0 THEN c.err = "NoRewardsClaimable"
                                 ELSE c.err = "" /\ c.val.amount = held
                              /\ get_reward_per_token(r.val, height + k, np).val
                                    = Add256(unwrap_or_default(r.val.REWARD_PER_TOKEN, Zero256),
                                             GainAt(rate, blocks, T))
                              /\ \A b \in DOMAIN power :
                                    np[b] > 0 =>
                                        LET gained ==
                                                query_pending_rewards(r.val, height + k, np, b).val
                                                    - Pending(b)
                                            share == ScaledShare(np[b], rate, blocks, T)
                                        IN  share <= gained /\ gained <= share + 1

\* C32 witness: in an active period a participant without voting power holds
\* rewards that a reconciliation in this block wrote down, and a staker
\* remains.
C32_Witness ==
    /\ instantiated /\ PeriodActive /\ TotalPower > 0 /\ height > 0
    /\ LAST_UPDATE_BLOCK = Some(height)
    /\ \E a \in DOMAIN power :
          /\ power[a] = 0 /\ StoredPending(a) > 0
          /\ MapGet(USER_REWARD_PER_TOKEN, a) = Some(StoredRewardPerToken)

\* ------------------------------------- claims about stakers who arrive
\* addr stakes its unit at the current height and the stake notification is
\* delivered by the accepted sender.
Staked(addr) ==
    execute_stake_changed(Store, height, power, CONFIG, HookCaller, "Stake", addr)
PowerWith(addr) ==
    [a \in DOMAIN power |-> IF a = addr THEN StakeUnit[a] ELSE power[a]]

\* C33: a participant whose voting power rises from zero at block b during an
\* active period, announced by the stake hook, receives nothing for the blocks
\* before b: at block b it holds what it held before, and at block b + k that
\* plus k blocks of its share, floor(p * floor(rate * k * SCALE / T) / SCALE),
\* with T the total power after the change and k counted inside the period.
C33_NoRetroactiveRewards ==
    (instantiated /\ PeriodActive) =>
        \A a \in DOMAIN power :
            power[a] = 0 =>
                LET r == Staked(a)
                    np == PowerWith(a)
                    held == StoredPending(a)
                IN  /\ r.err = ""
                    /\ Pending(a) = held
                    /\ \A k \in 0..2 :
                          query_pending_rewards(r.val, height + k, np, a)
                              = Ok(held + ScaledShare(np[a], REWARD_CONFIG.reward_rate,
                                                      BlocksIn(height, height + k),
                                                      get_total_voting_power(np)))

\* C33 witness: an active period has accrued for the stakers present, and a
\* participant without power, who has no checkpoint yet, stakes now and has
\* a block of the period ahead.
C33_Witness ==
    /\ instantiated /\ PeriodActive /\ TotalPower > 0 /\ height > 0
    /\ CurrentRewardPerToken # Zero256
    /\ \E a \in DOMAIN power :
          /\ power[a] = 0 /\ MapGet(USER_REWARD_PER_TOKEN, a) = None
          /\ Staked(a).err = ""
          /\ query_pending_rewards(Staked(a).val, height + 1, PowerWith(a), a).val > 0

\* ------------------------------------------ claims about checkpoints
\* C34: in every reachable state the stored USER_REWARD_PER_TOKEN of every
\* address is at most the stored REWARD_PER_TOKEN, so that the checked
\* subtraction of get_rewards_earned fails neither in update_rewards nor in
\* GetPendingRewards, in this block or a later one.
C34_CheckpointBelowAccumulator ==
    /\ \A a \in DOMAIN USER_REWARD_PER_TOKEN :
          Geq256(StoredRewardPerToken, USER_REWARD_PER_TOKEN[a])
    /\ instantiated =>
          \A a \in Accounts : \A h \in height..(MaxHeight + 1) :
              /\ update_rewards(Store, h, power, a).err = ""
              /\ query_pending_rewards(Store, h, power, a).err = ""

\* C34 witness: a staker's checkpoint is behind the stored accumulator, which
\* another reconciliation has advanced since.
C34_Witness ==
    /\ instantiated
    /\ \E a \in DOMAIN USER_REWARD_PER_TOKEN \cap DOMAIN power :
          /\ power[a] > 0
          /\ USER_REWARD_PER_TOKEN[a] # Zero256
          /\ USER_REWARD_PER_TOKEN[a] # StoredRewardPerToken
          /\ update_rewards(Store, height, power, a).err = ""

\* ------------------------------------- claims about other participants
\* The voting powers after a change of addr's power alone.
Moved(addr) ==
    {np \in Powers : np[addr] # power[addr]
                     /\ \A b \in DOMAIN power \ {addr} : np[b] = power[b]}

\* With storage s and powers pw, GetPendingRewards reports for everybody but
\* addr, at the current height, what it reports now.
OthersKeep(s, pw, addr) ==
    \A b \in Accounts \ {addr} :
        query_pending_rewards(s, height, pw, b) = Ok(Pending(b))

\* s holds the reward-per-token as of the current height and
\* LAST_UPDATE_BLOCK = min(height, period_finish).
Advanced(s) ==
    /\ s.REWARD_PER_TOKEN = Some(CurrentRewardPerToken)
    /\ s.LAST_UPDATE_BLOCK = Some(min(height, REWARD_CONFIG.period_finish))

\* The notifications about a change of addr's power from power to np.
Notifications(addr, np) ==
    LET kind == IF np[addr] > power[addr] THEN "Stake" ELSE "Unstake" IN
    {execute_stake_changed(Store, height, power, CONFIG, HookCaller, kind, addr),
     execute_nft_stake_changed(Store, height, power, CONFIG, HookCaller, kind, addr),
     execute_membership_changed(Store, height, power, CONFIG, HookCaller, {addr})}

\* C35: a Claim by address A, or a hook about a change of A's power, at block
\* h leaves the amount GetPendingRewards reports at block h for every other
\* address unchanged, while it brings the shared REWARD_PER_TOKEN and
\* LAST_UPDATE_BLOCK up to block h.
C35_OthersUnaffected ==
    instantiated =>
        \A a \in Accounts :
            /\ LET c == execute_claim(Store, height, power, CONFIG, a) IN
               c.err = "" => (OthersKeep(c.val.s, power, a) /\ Advanced(c.val.s))
            /\ a \in DOMAIN power =>
                  \A np \in Moved(a) : \A r \in Notifications(a, np) :
                      r.err = "" => (OthersKeep(r.val, np, a) /\ Advanced(r.val))

\* ------------------------------------ claims about successive periods
\* A step that is an accepted Fund (native or through the cw20 token): the
\* only steps that add to the amount funded.
FundStep == funded' > funded

\* C36: funded windows never overlap: no step lowers period_finish; every
\* accepted Fund at height h sets it to h + reward_duration, which is more
\* than it was; and no other step changes period_finish or reward_rate.
C36_WindowsNeverOverlap ==
    [][/\ REWARD_CONFIG'.period_finish >= REWARD_CONFIG.period_finish
       /\ FundStep =>
             /\ REWARD_CONFIG'.period_finish = height + REWARD_CONFIG.reward_duration
             /\ REWARD_CONFIG'.period_finish > REWARD_CONFIG.period_finish
             /\ REWARD_CONFIG.period_finish <= height
       /\ ~FundStep =>
             /\ REWARD_CONFIG'.period_finish = REWARD_CONFIG.period_finish
             /\ REWARD_CONFIG'.reward_rate = REWARD_CONFIG.reward_rate]_vars

\* C36 witness: a second period was funded in this block, after the first
\* had accrued and ended.
C36_Witness ==
    /\ instantiated /\ funded >= 2 /\ height >= 1
    /\ REWARD_CONFIG.period_finish > height
    /\ REWARD_CONFIG.period_finish = height + REWARD_CONFIG.reward_duration
    /\ StoredRewardPerToken # Zero256

====
